---- MODULE Spec2Model ----
(***************************************************************************)
(* BitChat (React Native): the wire codec (BinaryProtocol), the run-length *)
(* compression (CompressionUtil), the PKCS#7-style padding (MessagePadding)*)
(* and the mesh relay engine (BluetoothMeshService).                       *)
(*                                                                         *)
(* Byte strings (Uint8Array) are sequences of integers in 0..255.  TLC's   *)
(* integers are 32 bits wide, so clock values and timestamps are           *)
(* milliseconds since an origin close to the run, and the 32-bit hash of   *)
(* generateMessageId is computed on two 16-bit limbs.                      *)
(***************************************************************************)
EXTENDS Integers, Sequences, FiniteSets, Bags, TLC

VARIABLES
    \* ---- codec harnesses (pure functions applied to drawn inputs) ----
    wireSt,             \* encode / decode harness
    compSt,             \* compress / decompress harness
    padSt,              \* pad / unpad harness
    \* ---- BluetoothMeshService, one instance per node ----
    isInitialized,      \* part_000:36
    isScanning,         \* part_000:37
    isAdvertising,      \* part_000:38
    delegate,           \* part_000:32  (TRUE: a delegate is set, FALSE: null)
    connectedPeers,     \* part_000:39  peer id -> [lastSeen, isConnected]
    discoveredDevices,  \* part_000:40  set of device ids
    messageCache,       \* part_000:41  message id -> packet
    processedMessages,  \* part_000:42  set of message ids
    timers,             \* part_000:45-47 handles, and the intervals alive
    initPending,        \* initialize() calls suspended at await initializeBLE()
    batteryMode,        \* part_000:53
    scanParams,         \* part_000:49,50,54 [scanInterval, scanPause, maxConnections]
    \* ---- environment and observation ----
    now,                \* Date.now()
    engines,            \* the nodes that run an engine (fixed by Init)
    net,                \* bag of the writes in flight to an engine: [src, dst, data]
    delivered,          \* per node, the delegate.onMessageReceived calls (message ids)
    relayLog,           \* per node, the relay fan-outs: [id, from, targets]
    received,           \* per node, the onDataReceived calls: [from, data]
    appPeers,           \* per node, the peers the delegate was told are connected
    stopped,            \* per node, stopServices completed and no startServices since
    disconnecting,      \* per node, the peers a disconnectPeer call is suspended on
    realMesh,           \* the service over react-native-ble-plx: its tables, the events
                        \* it has emitted and its connectToPeer calls
    lastEvent           \* the handler that ran last, with its inputs and its writes

codecVars  == <<wireSt, compSt, padSt>>
engineVars == <<isInitialized, isScanning, isAdvertising, delegate, connectedPeers,
                discoveredDevices, messageCache, processedMessages, timers,
                initPending, batteryMode, scanParams>>
envVars    == <<now, engines, net, delivered, relayLog, received, appPeers, stopped,
                disconnecting, realMesh, lastEvent>>
vars       == <<codecVars, engineVars, envVars>>

-----------------------------------------------------------------------------
(* Program constants: PROTOCOL_CONSTANTS and class constants.              *)

VERSION == 2
HEADER_SIZE == 13
SENDER_ID_SIZE == 8
RECIPIENT_ID_SIZE == 8
SIGNATURE_SIZE == 64
MAX_TTL == 7
MAX_PAYLOAD_SIZE == 4096
COMPRESSION_THRESHOLD == 128
MAX_PADDING == 255
MaxFutureMs == 300000
StaleThreshold == 300000
RssiThreshold == 0 - 80
DummyDataLen == 64
CoverTtl == 1
MESSAGE == 4
ANNOUNCE == 1
KEY_EXCHANGE == 2

FLAG_HAS_RECIPIENT == 1
FLAG_HAS_SIGNATURE == 2
FLAG_IS_COMPRESSED == 4
FLAG_IS_BSV_RELATED == 8

-----------------------------------------------------------------------------
(* Byte-string helpers (Uint8Array / number[] operations).                 *)

\* `undefined` for an optional Uint8Array field, and `null` for a byte result.
NoBytes == <<0 - 1>>

\* `null` for a BitchatPacket result.
NoPacket == [null |-> TRUE]

Min(a, b) == IF a < b THEN a ELSE b

\* new Array(n).fill(b)
Rep(b, n) == [i \in 1..n |-> b]

\* Uint8Array.prototype.slice(from, to) with 0 <= from: the elements at the
\* 0-based positions from .. to-1 that exist.
Slice(s, from, to) ==
    IF Min(to, Len(s)) <= from THEN <<>> ELSE SubSeq(s, from + 1, Min(to, Len(s)))

\* data[i], 0-based, as an operand of <<, | or &: a read past the end gives
\* undefined, which these operators take as 0.
At(s, i) == IF i >= 0 /\ i < Len(s) THEN s[i + 1] ELSE 0

\* The set of byte values of a byte string.
Range(s) == {s[i] : i \in 1..Len(s)}

\* (flags & bit) !== 0, bit a power of two.
HasBit(flags, bit) == (flags \div bit) % 2 = 1

\* The k low bytes of n, most significant first (the loop i = 7..0 of encode).
RECURSIVE BytesBE(_, _)
BytesBE(n, k) == IF k = 0 THEN <<>> ELSE Append(BytesBE(n \div 256, k - 1), n % 256)

\* The k low bytes of n, least significant first (the map over i of
\* generateMessageId: byte i is (timestamp >> 8i) & 0xFF).
RECURSIVE BytesLE(_, _)
BytesLE(n, k) == IF k = 0 THEN <<>> ELSE <<n % 256>> \o BytesLE(n \div 256, k - 1)

\* timestamp = (timestamp << 8) | byte over the bytes of s, first byte first.
RECURSIVE FromBE(_)
FromBE(s) == IF s = <<>> THEN 0 ELSE FromBE(SubSeq(s, 1, Len(s) - 1)) * 256 + s[Len(s)]

\* A for loop over data[lo], ..., data[hi] in order: Body(st, byte) is the loop
\* body on the loop variables st.  The range is halved, and the first half is
\* evaluated before the second is entered, so that the evaluation stays
\* shallow on long inputs; the bytes are still visited one by one, in order.
RECURSIVE ForEachByte(_, _, _, _, _)
ForEachByte(Body(_, _), data, lo, hi, st) ==
    IF lo > hi THEN st
    ELSE IF lo = hi THEN Body(st, data[lo])
    ELSE LET mid   == (lo + hi) \div 2
             first == ForEachByte(Body, data, lo, mid, st)
         IN  IF first = first THEN ForEachByte(Body, data, mid + 1, hi, first) ELSE first

\* Body applied k times in a row to st (a while loop that runs at most k
\* times, its body doing nothing once the loop condition is false).
RECURSIVE Repeat(_, _, _)
Repeat(Body(_), k, st) ==
    IF k <= 0 THEN st
    ELSE IF k = 1 THEN Body(st)
    ELSE LET first == Repeat(Body, k \div 2, st)
         IN  IF first = first THEN Repeat(Body, k - (k \div 2), first) ELSE first

-----------------------------------------------------------------------------
(* CompressionUtil (src/src/utils/CompressionUtil.ts).                     *)

\* entropy < 7.5.  calculateEntropy is the Shannon entropy of the byte
\* frequencies, which is at most log2 of the number of distinct byte values;
\* 2^7.5 > 181, so it is below 7.5 whenever at most 181 distinct values occur.
\* Every byte string drawn here has far fewer distinct values, so for them the
\* test is decided exactly.
EntropyBelowCutoff(data) == Cardinality(Range(data)) <= 181

ShouldCompress(data) ==
    IF Len(data) < COMPRESSION_THRESHOLD THEN FALSE ELSE EntropyBelowCutoff(data)

\* The body of the for loop of compress (lines 45-68) on the loop variables
\* [compressed, lastByte, count].
CompressBody(st, currentByte) ==
    IF currentByte = st.lastByte /\ st.count < 255
    THEN [st EXCEPT !.count = st.count + 1]
    ELSE LET run == IF st.count > 0 THEN <<255, st.lastByte, st.count>> ELSE <<>>
             lit == IF currentByte # 255 THEN <<currentByte>> ELSE <<255, 255, 1>>
         IN  [compressed |-> st.compressed \o run \o lit,
              lastByte |-> currentByte, count |-> 1]

\* compress lines 40-78: the loop from lastByte = -1, count = 0, then the
\* final run.
CompressLoop(data) ==
    LET end == ForEachByte(CompressBody, data, 1, Len(data),
                           [compressed |-> <<>>, lastByte |-> 0 - 1, count |-> 0])
    IN  IF end.count > 0
        THEN end.compressed \o <<255, end.lastByte, end.count>>
        ELSE end.compressed

\* compress without the test of lines 81-83.
RatioGateOff(data, result) == result

\* compress lines 78-85: null (NoBytes) unless the result is shorter than
\* MIN_COMPRESSION_RATIO (0.9) of the input.  result.length >=
\* data.length * 0.9 is compared as 10 * result.length >= 9 * data.length.
RatioGate(data, result) ==
    IF 10 * Len(result) >= 9 * Len(data) THEN NoBytes ELSE result

\* compress: null (NoBytes) unless shouldCompress.
Compress(data) ==
    IF ~ShouldCompress(data) THEN NoBytes ELSE RatioGate(data, CompressLoop(data))

\* One pass of the while loop of decompress (lines 102-119) on the loop
\* variables [i, decompressed]; nothing once the loop condition is false.
DecompressBody(compressedData, originalSize, st) ==
    IF ~(st.i < Len(compressedData) /\ Len(st.decompressed) < originalSize)
    THEN st
    ELSE LET byte == At(compressedData, st.i) IN
         IF byte = 255 /\ st.i + 2 < Len(compressedData)
         THEN LET value == At(compressedData, st.i + 1)
                  count == At(compressedData, st.i + 2)
                  room  == originalSize - Len(st.decompressed)
              IN  [i |-> st.i + 3,
                   decompressed |-> st.decompressed \o Rep(value, Min(count, room))]
         ELSE [i |-> st.i + 1, decompressed |-> Append(st.decompressed, byte)]

\* decompress never returns null: nothing in its body can throw.
\* The loop advances i by at least one each pass, so it makes at most
\* compressedData.length passes.
Decompress(compressedData, originalSize) ==
    Repeat(LAMBDA st : DecompressBody(compressedData, originalSize, st),
           Len(compressedData), [i |-> 0, decompressed |-> <<>>]).decompressed

-----------------------------------------------------------------------------
(* MessagePadding (src/unnamed/part_007).                                  *)

\* pad with > for >= in its first test (line 267); the length byte is
\* written last, as in line 291.
PadAtTarget(data, targetSize, randomBytes) ==
    IF Len(data) > targetSize THEN data
    ELSE LET paddingNeeded == targetSize - Len(data) IN
         IF paddingNeeded > MAX_PADDING THEN data
         ELSE [i \in 1..targetSize |->
                  IF i = targetSize THEN paddingNeeded
                  ELSE IF i <= Len(data) THEN data[i]
                  ELSE randomBytes[i - Len(data)]]

\* pad(data, targetSize); randomBytes is what getRandomBytes(paddingNeeded - 1)
\* returned, a byte string of that length.
Pad(data, targetSize, randomBytes) ==
    IF Len(data) >= targetSize THEN data
    ELSE LET paddingNeeded == targetSize - Len(data) IN
         IF paddingNeeded > MAX_PADDING THEN data
         ELSE [i \in 1..targetSize |->
                  IF i <= Len(data) THEN data[i]
                  ELSE IF i = targetSize THEN paddingNeeded
                  ELSE randomBytes[i - Len(data)]]

\* isValidPKCS7Padding that looks at the last byte only.
IsValidPKCS7PaddingLastByte(data, paddingLength) ==
    IF paddingLength <= 0 \/ paddingLength > Len(data) THEN FALSE
    ELSE data[Len(data)] = paddingLength

IsValidPKCS7Padding(data, paddingLength) ==
    IF paddingLength <= 0 \/ paddingLength > Len(data) THEN FALSE
    ELSE \A i \in (Len(data) - paddingLength + 1)..Len(data) : data[i] = paddingLength

Unpad(data) ==
    IF Len(data) = 0 THEN data
    ELSE LET paddingLength == data[Len(data)] IN
         IF paddingLength <= 0 \/ paddingLength > Len(data) \/ paddingLength > MAX_PADDING
         THEN data
         ELSE IF IsValidPKCS7Padding(data, paddingLength)
              THEN Slice(data, 0, Len(data) - paddingLength)
              ELSE data

-----------------------------------------------------------------------------
(* BinaryProtocol (src/src/protocols/BinaryProtocol.ts).                   *)
(* A packet is [version, type, ttl, timestamp, senderID, recipientID,      *)
(* payload, signature, flags]; recipientID and signature are NoBytes when  *)
(* undefined.                                                              *)

\* new Uint8Array(number[]) stores every element modulo 256.
ToUint8(s) == [i \in 1..Len(s) |-> s[i] % 256]

\* id.slice(0, size), zero-padded to size bytes.
FixedWidth(id, size) ==
    LET cut == Slice(id, 0, size) IN cut \o Rep(0, size - Len(cut))

\* encode lines 46-58: the payload that goes on the wire, given what compress
\* returned for it.
ChoosePayload(original, compressedPayload) ==
    IF compressedPayload # NoBytes /\ Len(compressedPayload) < Len(original)
    THEN [isCompressed |-> TRUE, payload |-> compressedPayload]
    ELSE [isCompressed |-> FALSE, payload |-> original]

PayloadOnWire(original) ==
    ChoosePayload(original,
                  IF ShouldCompress(original) THEN Compress(original) ELSE NoBytes)

\* encode lines 60-132: the frame around the chosen payload w.
EncodeFrame(packet, w) ==
    LET flags == (IF packet.recipientID # NoBytes THEN FLAG_HAS_RECIPIENT ELSE 0)
               + (IF packet.signature # NoBytes THEN FLAG_HAS_SIGNATURE ELSE 0)
               + (IF w.isCompressed THEN FLAG_IS_COMPRESSED ELSE 0)
               + (IF packet.flags.isBSVRelated THEN FLAG_IS_BSV_RELATED ELSE 0)
        payloadLength == Len(w.payload) + (IF w.isCompressed THEN 2 ELSE 0)
        originalPayloadSize == Len(packet.payload)
    IN  ToUint8(
          <<packet.version, packet.type, packet.ttl>>
          \o BytesBE(packet.timestamp, 8)
          \o <<flags>>
          \o <<(payloadLength \div 256) % 256, payloadLength % 256>>
          \o FixedWidth(packet.senderID, SENDER_ID_SIZE)
          \o (IF packet.recipientID # NoBytes
              THEN FixedWidth(packet.recipientID, RECIPIENT_ID_SIZE) ELSE <<>>)
          \o w.payload
          \o (IF w.isCompressed
              THEN <<(originalPayloadSize \div 256) % 256, originalPayloadSize % 256>>
              ELSE <<>>)
          \o (IF packet.signature # NoBytes
              THEN FixedWidth(packet.signature, SIGNATURE_SIZE) ELSE <<>>))

\* encode.  Its catch block is not reached for the packets of this model
\* (integer timestamps, byte-string fields), so the result is never null.
Encode(packet) == EncodeFrame(packet, PayloadOnWire(packet.payload))

\* trimNullBytes
RECURSIVE TrimNullBytes(_)
TrimNullBytes(data) ==
    IF data # <<>> /\ data[Len(data)] = 0
    THEN TrimNullBytes(SubSeq(data, 1, Len(data) - 1))
    ELSE data

\* The offset decode has reached after the header fields: version, type and
\* ttl (lines 152-154), the 8 timestamp bytes (157-160), the flags byte (163)
\* and the 2 bytes of the payload length (169-170).
HeaderEnd == 1 + 1 + 1 + 8 + 1 + 2

\* The flags byte and the payload-length field of a header (lines 163-170).
WireFlags(data) == At(data, 11)
WirePayloadLength(data) == At(data, 12) * 256 + At(data, 13)

\* expectedLength (lines 174-177).
ExpectedLength(data) ==
    SENDER_ID_SIZE
    + (IF HasBit(WireFlags(data), FLAG_HAS_RECIPIENT) THEN RECIPIENT_ID_SIZE ELSE 0)
    + WirePayloadLength(data)
    + (IF HasBit(WireFlags(data), FLAG_HAS_SIGNATURE) THEN SIGNATURE_SIZE ELSE 0)

\* The length test of decode (line 179): TRUE when decode goes on.
LengthAccepted(data) == ~(Len(data) < HEADER_SIZE + ExpectedLength(data))

\* decode lines 195-217: the payload section that starts at offset payloadAt.
DecodePayload(data, isCompressed, payloadLength, payloadAt) ==
    IF isCompressed
    THEN Decompress(Slice(data, payloadAt, payloadAt + (payloadLength - 2)),
                    At(data, payloadAt + (payloadLength - 2)) * 256
                    + At(data, payloadAt + (payloadLength - 2) + 1))
    ELSE Slice(data, payloadAt, payloadAt + payloadLength)

\* decode lines 184-245: the sections after the header, read at the running
\* offset, which is HeaderEnd after the header.
DecodeSections(data, flags, payloadLength, payloadAt) ==
    [version     |-> At(data, 0),
     type        |-> At(data, 1),
     ttl         |-> At(data, 2),
     timestamp   |-> FromBE(Slice(data, 3, 11)),
     senderID    |-> TrimNullBytes(Slice(data, HeaderEnd, HeaderEnd + SENDER_ID_SIZE)),
     recipientID |-> IF flags.hasRecipient
                     THEN TrimNullBytes(Slice(data, HeaderEnd + SENDER_ID_SIZE,
                                              HeaderEnd + SENDER_ID_SIZE
                                              + RECIPIENT_ID_SIZE))
                     ELSE NoBytes,
     payload     |-> DecodePayload(data, flags.isCompressed, payloadLength, payloadAt),
     signature   |-> IF flags.hasSignature
                     THEN Slice(data, payloadAt + payloadLength,
                                payloadAt + payloadLength + SIGNATURE_SIZE)
                     ELSE NoBytes,
     flags       |-> flags]

\* decode lines 163-167: the flags of the flags byte.
ParseFlags(byte) ==
    [hasRecipient |-> HasBit(byte, FLAG_HAS_RECIPIENT),
     hasSignature |-> HasBit(byte, FLAG_HAS_SIGNATURE),
     isCompressed |-> HasBit(byte, FLAG_IS_COMPRESSED),
     isBSVRelated |-> HasBit(byte, FLAG_IS_BSV_RELATED)]

\* The offset decode has reached when it comes to the payload (lines 184-192).
PayloadAt(data) ==
    HeaderEnd + SENDER_ID_SIZE
    + (IF HasBit(WireFlags(data), FLAG_HAS_RECIPIENT) THEN RECIPIENT_ID_SIZE ELSE 0)

\* decode: NoPacket for null.
Decode(data) ==
    IF Len(data) < HEADER_SIZE THEN NoPacket
    ELSE IF ~LengthAccepted(data) THEN NoPacket
    ELSE DecodeSections(data, ParseFlags(WireFlags(data)), WirePayloadLength(data),
                        PayloadAt(data))

\* validate with >= for > in its timestamp test (line 298).
ValidateEarly(packet, clock) ==
    /\ packet.version = VERSION
    /\ ~(packet.ttl > MAX_TTL \/ packet.ttl < 0)
    /\ ~(Len(packet.senderID) = 0 \/ Len(packet.senderID) > SENDER_ID_SIZE)
    /\ ~(packet.recipientID # NoBytes /\ Len(packet.recipientID) > RECIPIENT_ID_SIZE)
    /\ ~(Len(packet.payload) > MAX_PAYLOAD_SIZE)
    /\ ~(packet.signature # NoBytes /\ Len(packet.signature) # SIGNATURE_SIZE)
    /\ ~(packet.timestamp >= clock + MaxFutureMs)

\* validate without its payload size test (lines 283-287).
ValidateAnySize(packet, clock) ==
    /\ packet.version = VERSION
    /\ ~(packet.ttl > MAX_TTL \/ packet.ttl < 0)
    /\ ~(Len(packet.senderID) = 0 \/ Len(packet.senderID) > SENDER_ID_SIZE)
    /\ ~(packet.recipientID # NoBytes /\ Len(packet.recipientID) > RECIPIENT_ID_SIZE)
    /\ ~(packet.signature # NoBytes /\ Len(packet.signature) # SIGNATURE_SIZE)
    /\ ~(packet.timestamp > clock + MaxFutureMs)

\* validate, with Date.now() = clock.
Validate(packet, clock) ==
    /\ packet.version = VERSION
    /\ ~(packet.ttl > MAX_TTL \/ packet.ttl < 0)
    /\ ~(Len(packet.senderID) = 0 \/ Len(packet.senderID) > SENDER_ID_SIZE)
    /\ ~(packet.recipientID # NoBytes /\ Len(packet.recipientID) > RECIPIENT_ID_SIZE)
    /\ ~(Len(packet.payload) > MAX_PAYLOAD_SIZE)
    /\ ~(packet.signature # NoBytes /\ Len(packet.signature) # SIGNATURE_SIZE)
    /\ ~(packet.timestamp > clock + MaxFutureMs)

\* decrementTTL that returns the packet with the ttl it came with.
DecrementTTLKeeps(packet) ==
    IF packet.ttl <= 0 THEN NoPacket ELSE packet

\* decrementTTL with its expiry test off by one (ttl < 0 for ttl <= 0).
DecrementTTLBelowZero(packet) ==
    IF packet.ttl < 0 THEN NoPacket ELSE [packet EXCEPT !.ttl = packet.ttl - 1]

\* decrementTTL: NoPacket when the packet has expired.
DecrementTTL(packet) ==
    IF packet.ttl <= 0 THEN NoPacket ELSE [packet EXCEPT !.ttl = packet.ttl - 1]

\* One step of the hash loop of generateMessageId on a 32-bit value held as
\* two 16-bit limbs <<high, low>>: ((hash << 5) - hash + byte) & 0xffffffff,
\* which is 31 * hash + byte modulo 2^32.
HashStep(h, byte) ==
    LET low  == 31 * h[2] + byte
        high == 31 * h[1] + (low \div 65536)
    IN  <<high % 65536, low % 65536>>

\* The signed 32-bit integer the limbs stand for (the result of & in
\* JavaScript is a signed 32-bit integer).
ToInt32(h) == (IF h[1] >= 32768 THEN h[1] - 65536 ELSE h[1]) * 65536 + h[2]

\* generateMessageId with the ttl among the bytes it hashes.
GenerateMessageIdWithTtl(packet) ==
    LET input == packet.senderID \o BytesLE(packet.timestamp, 8)
                 \o <<packet.ttl>> \o Slice(packet.payload, 0, 32)
    IN  ToInt32(ForEachByte(HashStep, input, 1, Len(input), <<0, 0>>))

\* generateMessageId.  The id is hash.toString(16); the conversion is
\* one-to-one on integers, so the id is held as the integer itself.
GenerateMessageId(packet) ==
    LET input == packet.senderID \o BytesLE(packet.timestamp, 8)
                 \o Slice(packet.payload, 0, 32)
    IN  ToInt32(ForEachByte(HashStep, input, 1, Len(input), <<0, 0>>))

-----------------------------------------------------------------------------
(* Bounds of the model.                                                    *)

\* Device / node ids are 1..NumNodes.
NumNodes == 4
\* Runs per drawn compression input.
MaxRuns == 2
\* Length of the byte strings drawn for pad, and the largest near target.
MaxPadLen == 2
MaxTarget == 5
\* initialize() calls that may be in flight together.
MaxInitCalls == 2
\* connectToPeer calls made on the service over react-native-ble-plx.
MaxCalls == 2
\* Clock ticks of ClockStep ms.
MaxTicks == 1
\* Nodes that run an engine in the mesh, and the writes between engines
\* after which the application and the cover timer send nothing more.
NumMeshNodes == 3
MaxTraffic == 4
\* onDataReceived calls the environment makes on one engine.
MaxInbound == 2

Node == 1..NumNodes
MeshNodes == 1..Min(NumMeshNodes, NumNodes)
ClockStep == 400000

-----------------------------------------------------------------------------
(* Inputs drawn by the harnesses and by the environment.                   *)

\* Byte strings given as runs <<value, length>>.
RECURSIVE RunsToBytes(_)
RunsToBytes(runs) ==
    IF runs = <<>> THEN <<>>
    ELSE Rep(runs[1][1], runs[1][2]) \o RunsToBytes(Tail(runs))

RunValues == {65, 66, 255}
RunLengths == {1, 64, 130, 256}
RunSeqs == UNION {[1..k -> RunValues \X RunLengths] : k \in 1..MaxRuns}
CompressInputs == {RunsToBytes(r) : r \in RunSeqs}

\* 1, 2, ..., n: no two neighbours equal.
Ramp(n) == [i \in 1..n |-> i]

\* n bytes in runs of four of alternating values, the last run one byte
\* longer: every run costs compress four bytes, so Stripes(129) compresses to
\* 128 bytes, one less than it has.
Stripes(n) == [i \in 1..n |-> IF ((Min(i, n - 1) - 1) \div 4) % 2 = 0 THEN 65 ELSE 66]

PadBytes == {1, 2, 3}
FillerBytes == {0, 3, 255}
PadInputs == UNION {[1..k -> PadBytes] : k \in 0..MaxPadLen}
PadTargets == (0..MaxTarget) \cup {MAX_PADDING + 1, MAX_PADDING + 2}

Flags(hasRecipient, hasSignature, isBSVRelated) ==
    [hasRecipient |-> hasRecipient, hasSignature |-> hasSignature,
     isCompressed |-> FALSE, isBSVRelated |-> isBSVRelated]

MkPacket(type, ttl, timestamp, senderID, recipientID, payload, signature) ==
    [version |-> VERSION, type |-> type, ttl |-> ttl, timestamp |-> timestamp,
     senderID |-> senderID, recipientID |-> recipientID, payload |-> payload,
     signature |-> signature,
     flags |-> Flags(recipientID # NoBytes, signature # NoBytes, FALSE)]

WirePayloads ==
    { <<>>, <<72, 105>>, Rep(65, 200), Rep(65, 100) \o Rep(66, 100),
      Rep(255, 130), Rep(65, 300), Ramp(130), Stripes(COMPRESSION_THRESHOLD + 1) }
WireSenders == { <<1, 2, 3, 4, 5, 6, 7, 8>>, <<9>>, <<5, 0>> }
WireRecipients == { NoBytes, <<>>, <<7, 7>> }
WireSignatures == { NoBytes, Rep(9, SIGNATURE_SIZE) }
WirePackets ==
    { MkPacket(MESSAGE, ttl, 1000, s, r, p, g) :
        ttl \in {0, MAX_TTL}, s \in WireSenders, r \in WireRecipients,
        p \in WirePayloads, g \in WireSignatures }

TamperKinds ==
    {"dropLast", "dropTwo", "headerOnly", "appendOne", "appendTwo", "version", "shortRun"}

\* The bytes with the last byte of a compressed payload section (the count of
\* its last run) set to 1; bytes that are not compressed stay as they are.
ShortenLastRun(data) ==
    IF HasBit(WireFlags(data), FLAG_IS_COMPRESSED)
    THEN [data EXCEPT ![PayloadAt(data) + WirePayloadLength(data) - 2] = 1]
    ELSE data

Tamper(kind, data) ==
    CASE kind = "dropLast"   -> SubSeq(data, 1, Len(data) - 1)
      [] kind = "dropTwo"    -> SubSeq(data, 1, Len(data) - 2)
      [] kind = "headerOnly" -> SubSeq(data, 1, 5)
      [] kind = "appendOne"  -> Append(data, 0)
      [] kind = "appendTwo"  -> data \o <<170, 187>>
      [] kind = "version"    -> [data EXCEPT ![1] = 1]
      [] kind = "shortRun"   -> ShortenLastRun(data)

-----------------------------------------------------------------------------
(* BluetoothMeshService (src/unnamed/part_000).                            *)

Modes == {"aggressive", "balanced", "performance", "maximum"}

\* updateScanParameters with the maximum row holding the pause of the
\* performance row.
UpdateScanParametersSlip(mode) ==
    CASE mode = "aggressive"  -> [scanInterval |-> 5000,  scanPause |-> 5000, maxConnections |-> 4]
      [] mode = "balanced"    -> [scanInterval |-> 10000, scanPause |-> 2000, maxConnections |-> 8]
      [] mode = "performance" -> [scanInterval |-> 15000, scanPause |-> 1000, maxConnections |-> 12]
      [] mode = "maximum"     -> [scanInterval |-> 20000, scanPause |-> 1000, maxConnections |-> 16]

\* updateScanParameters: the parameters the switch sets for a battery mode.
UpdateScanParameters(mode) ==
    CASE mode = "aggressive"  -> [scanInterval |-> 5000,  scanPause |-> 5000, maxConnections |-> 4]
      [] mode = "balanced"    -> [scanInterval |-> 10000, scanPause |-> 2000, maxConnections |-> 8]
      [] mode = "performance" -> [scanInterval |-> 15000, scanPause |-> 1000, maxConnections |-> 12]
      [] mode = "maximum"     -> [scanInterval |-> 20000, scanPause |-> 500,  maxConnections |-> 16]

\* The field initialisers of the class (lines 45-54).
NoTimers ==
    [peerCleanupTimer |-> 0, coverTrafficTimer |-> 0, scanDutyCycleTimer |-> 0,
     cleanupLive |-> {}, coverLive |-> {}]
InitialScanParams == [scanInterval |-> 10000, scanPause |-> 2000, maxConnections |-> 8]

\* The peers of node n (keys of connectedPeers).
Peers(n) == DOMAIN connectedPeers[n]

\* The peer object connectToDevice builds (the fields the engine reads).
NewPeer(clock) == [lastSeen |-> clock, isConnected |-> TRUE]

\* cryptoService.generatePeerID(new Uint8Array(32)): the first 8 bytes of the
\* SHA-256 of 32 zero bytes, the same on every device.
CoverSenderID == <<102, 104, 122, 173, 248, 98, 189, 119>>

\* The packet sendCoverTraffic builds; dummyData is generateDummyData(64).
CoverPacket(clock, dummyData) ==
    [version |-> 2, type |-> MESSAGE, ttl |-> CoverTtl, timestamp |-> clock,
     senderID |-> CoverSenderID, recipientID |-> NoBytes, payload |-> dummyData,
     signature |-> NoBytes, flags |-> Flags(FALSE, FALSE, FALSE)]

\* sendDataToPeer succeeds (does not throw) for this peer.
CanSendTo(n, peerId) ==
    peerId \in Peers(n) /\ connectedPeers[n][peerId].isConnected

\* The fan-out of sendMessage under Promise.all for Promise.allSettled: no
\* write counts once one sendDataToPeer call has thrown.
SendWritesAllOrNone(n, binaryData) ==
    IF \A q \in Peers(n) : CanSendTo(n, q)
    THEN {[src |-> n, dst |-> p, data |-> binaryData] : p \in Peers(n)}
    ELSE {}

\* The writes the fan-out of sendMessage makes: one per connected peer.
SendWrites(n, binaryData) ==
    {[src |-> n, dst |-> p, data |-> binaryData] : p \in {q \in Peers(n) : CanSendTo(n, q)}}

\* IsDuplicate with the test of line 403 left out.
IsDuplicateNever(n, messageId) == FALSE

\* onDataReceived line 403: the packet has been processed before.
IsDuplicate(n, messageId) == messageId \in processedMessages[n]

\* IsDeliveredToApp with expired packets kept from the delegate.
IsDeliveredToAppLive(n, packet) == packet.type = MESSAGE /\ delegate[n] /\ packet.ttl > 0

\* handleIncomingPacket: the packet goes to handleMessage, which calls
\* delegate?.onMessageReceived.
IsDeliveredToApp(n, packet) == packet.type = MESSAGE /\ delegate[n]

\* onDataReceived line 419.
ShouldRelay(packet) == packet.ttl > 0

\* RelayTargets without the filter of line 477.
RelayTargetsAll(n, fromPeerId) == Peers(n)

\* relayMessage: the peers written to.
RelayTargets(n, fromPeerId) == {p \in Peers(n) : p # fromPeerId}

\* relayMessage lines 475-483: the writes of the fan-out of relayPacket.
FanOut(n, relayPacket, fromPeerId) ==
    IF relayPacket = NoPacket THEN {}
    ELSE {[src |-> n, dst |-> p, data |-> Encode(relayPacket)] :
            p \in {q \in RelayTargets(n, fromPeerId) : CanSendTo(n, q)}}

\* relayMessage: the writes made, none when decrementTTL returns null.
RelayWrites(n, packet, fromPeerId) == FanOut(n, DecrementTTL(packet), fromPeerId)

\* cleanupStalePeers with >= for > in its staleness test.
StalePeersAtThreshold(n, clock) ==
    {p \in Peers(n) : clock - connectedPeers[n][p].lastSeen >= StaleThreshold}

\* cleanupStalePeers: the peers judged stale at the clock value read.
StalePeers(n, clock) ==
    {p \in Peers(n) : clock - connectedPeers[n][p].lastSeen > StaleThreshold}

\* What the last handler did.
Event(op, n, peer, data, outcome, id, writes, toApp, disconnects) ==
    [op |-> op, node |-> n, peer |-> peer, data |-> data, outcome |-> outcome,
     id |-> id, writes |-> writes, toApp |-> toApp, disconnects |-> disconnects]

\* Map.prototype.set: key k set to v.
WithKey(f, k, v) == [x \in DOMAIN f \cup {k} |-> IF x = k THEN v ELSE f[x]]

\* The writes that go in flight: those to a node that runs an engine here.
InFlight(writes) == {w \in writes : w.dst \in engines}

NoRssi == 0 - 1000
RssiValues == {NoRssi, 0 - 90, 0 - 60}

\* The handle setInterval returns next: no interval is ever cleared.
NextHandle(n) == Cardinality(timers[n].cleanupLive \cup timers[n].coverLive) + 1

\* No initialize() call of node n is suspended at its await.
Settled(n) == initPending[n] = 0

-----------------------------------------------------------------------------
(* The operations.  A handler runs to completion; an await on a promise    *)
(* that is already settled resumes before any timer or transport event.    *)

\* initialize up to await this.initializeBLE() (lines 71-80).
InitializeBegin(n) ==
    /\ n \in engines
    /\ initPending[n] < MaxInitCalls
    /\ IF isInitialized[n]
       THEN /\ Settled(n)
            /\ lastEvent' = Event("initialize", n, 0, <<>>, "already", 0, {}, FALSE, {})
            /\ UNCHANGED <<delegate, initPending>>
       ELSE /\ delegate' = [delegate EXCEPT ![n] = TRUE]
            /\ initPending' = [initPending EXCEPT ![n] = @ + 1]
            /\ lastEvent' = Event("initialize", n, 0, <<>>, "suspended", 0, {}, FALSE, {})
    /\ UNCHANGED <<codecVars, isInitialized, isScanning, isAdvertising, connectedPeers,
                   discoveredDevices, messageCache, processedMessages, timers,
                   batteryMode, scanParams, now, engines, disconnecting, realMesh, net, delivered, received, relayLog,
                   appPeers, stopped>>

\* initialize after the await (lines 82-90), with startPeriodicTasks.
InitializeFinish(n) ==
    /\ n \in engines
    /\ initPending[n] > 0
    /\ LET h == NextHandle(n) IN
       timers' = [timers EXCEPT ![n] =
                     [@ EXCEPT !.peerCleanupTimer = h,
                               !.coverTrafficTimer = h + 1,
                               !.cleanupLive = @ \cup {h},
                               !.coverLive = @ \cup {h + 1}]]
    /\ scanParams' = [scanParams EXCEPT ![n] = UpdateScanParameters(batteryMode[n])]
    /\ isInitialized' = [isInitialized EXCEPT ![n] = TRUE]
    /\ initPending' = [initPending EXCEPT ![n] = @ - 1]
    /\ lastEvent' = Event("initialized", n, 0, <<>>, "ok", 0, {}, FALSE, {})
    /\ UNCHANGED <<codecVars, isScanning, isAdvertising, delegate, connectedPeers,
                   discoveredDevices, messageCache, processedMessages, batteryMode,
                   now, engines, disconnecting, realMesh, net, delivered, received, relayLog, appPeers, stopped>>

\* startServices without the test of lines 101-103.
StartServicesUnchecked(n) ==
    /\ n \in engines /\ Settled(n)
    /\ isAdvertising' = [isAdvertising EXCEPT ![n] = TRUE]
    /\ isScanning' = [isScanning EXCEPT ![n] = TRUE]
    /\ stopped' = [stopped EXCEPT ![n] = FALSE]
    /\ lastEvent' = Event("startServices", n, 0, <<>>, "ok", 0, {}, FALSE, {})
    /\ UNCHANGED <<codecVars, isInitialized, delegate, connectedPeers, discoveredDevices,
                   messageCache, processedMessages, timers, initPending, batteryMode,
                   scanParams, now, engines, disconnecting, realMesh, net, delivered, received, relayLog, appPeers>>

\* startServices (lines 100-109), with startAdvertising and startScanning.
StartServices(n) ==
    /\ n \in engines /\ Settled(n)
    /\ IF ~isInitialized[n]
       THEN /\ lastEvent' = Event("startServices", n, 0, <<>>, "error", 0, {}, FALSE, {})
            /\ UNCHANGED <<isScanning, isAdvertising, stopped>>
       ELSE /\ isAdvertising' = [isAdvertising EXCEPT ![n] = TRUE]
            /\ isScanning' = [isScanning EXCEPT ![n] = TRUE]
            /\ stopped' = [stopped EXCEPT ![n] = FALSE]
            /\ lastEvent' = Event("startServices", n, 0, <<>>, "ok", 0, {}, FALSE, {})
    /\ UNCHANGED <<codecVars, isInitialized, delegate, connectedPeers, discoveredDevices,
                   messageCache, processedMessages, timers, initPending, batteryMode,
                   scanParams, now, engines, disconnecting, realMesh, net, delivered, received, relayLog, appPeers>>

\* stopServices (lines 114-120), with stopScanning, stopAdvertising and
\* disconnectAllPeers.
StopServices(n) ==
    /\ n \in engines /\ Settled(n)
    /\ timers' = [timers EXCEPT ![n] =
                     IF isScanning[n] THEN [@ EXCEPT !.scanDutyCycleTimer = 0] ELSE @]
    /\ isScanning' = [isScanning EXCEPT ![n] = FALSE]
    /\ isAdvertising' = [isAdvertising EXCEPT ![n] = FALSE]
    /\ connectedPeers' = [connectedPeers EXCEPT ![n] = <<>>]
    /\ stopped' = [stopped EXCEPT ![n] = TRUE]
    /\ lastEvent' = Event("stopServices", n, 0, <<>>, "ok", 0, {}, FALSE, Peers(n))
    /\ UNCHANGED <<codecVars, isInitialized, delegate, discoveredDevices, messageCache,
                   processedMessages, initPending, batteryMode, scanParams, now,
                   engines, disconnecting, realMesh, net, delivered, received, relayLog, appPeers>>

\* The signal test of onDeviceDiscovered (line 284): !device.rssi holds for a
\* missing rssi and for rssi 0.
TooWeak(rssi) == rssi = NoRssi \/ rssi = 0 \/ rssi < RssiThreshold

\* The capacity test of onDeviceDiscovered with > for >=.
AtMaxConnectionsOver(n) == Cardinality(Peers(n)) > scanParams[n].maxConnections

\* The capacity test of onDeviceDiscovered (line 288).
AtMaxConnections(n) == Cardinality(Peers(n)) >= scanParams[n].maxConnections

\* onDeviceDiscovered (lines 283-299) with connectToDevice (lines 301-332),
\* called from the discovery chain while scanning is on. The event records
\* the rssi of the device as its data.
DeviceDiscovered(n, device, rssi) ==
    /\ n \in engines /\ Settled(n)
    /\ isScanning[n]
    /\ device # n
    /\ IF TooWeak(rssi)
       THEN /\ lastEvent' = Event("onDeviceDiscovered", n, device, <<rssi>>, "weak", 0, {}, FALSE, {})
            /\ UNCHANGED <<connectedPeers, discoveredDevices, appPeers>>
       ELSE IF AtMaxConnections(n)
       THEN /\ lastEvent' = Event("onDeviceDiscovered", n, device, <<rssi>>, "full", 0, {}, FALSE, {})
            /\ UNCHANGED <<connectedPeers, discoveredDevices, appPeers>>
       ELSE /\ discoveredDevices' = [discoveredDevices EXCEPT ![n] = @ \cup {device}]
            /\ IF device \in Peers(n)
               THEN /\ lastEvent' = Event("onDeviceDiscovered", n, device, <<rssi>>, "already", 0, {}, FALSE, {})
                    /\ UNCHANGED <<connectedPeers, appPeers>>
               ELSE /\ connectedPeers' = [connectedPeers EXCEPT ![n] =
                                             WithKey(@, device, NewPeer(now))]
                    /\ appPeers' = [appPeers EXCEPT ![n] =
                                       IF delegate[n] THEN @ \cup {device} ELSE @]
                    /\ lastEvent' = Event("onDeviceDiscovered", n, device, <<rssi>>, "connected", 0, {}, delegate[n], {})
    /\ UNCHANGED <<codecVars, isInitialized, isScanning, isAdvertising, delegate,
                   messageCache, processedMessages, timers, initPending, batteryMode,
                   scanParams, now, engines, disconnecting, realMesh, net, delivered, received, relayLog, stopped>>

\* Process without the insertion of line 407: the id is not in
\* processedMessages while the relay is under way.
ProcessNoInsert(n, fromPeerId, data, rest, packet, messageId, toApp, relayed, writes) ==
    /\ UNCHANGED processedMessages
    /\ connectedPeers' =
         [connectedPeers EXCEPT ![n] =
            IF fromPeerId \in DOMAIN @
            THEN [@ EXCEPT ![fromPeerId] = [@ EXCEPT !.lastSeen = now]] ELSE @]
    /\ delivered' = [delivered EXCEPT ![n] = IF toApp THEN Append(@, messageId) ELSE @]
    /\ relayLog' = [relayLog EXCEPT ![n] =
                      IF relayed
                      THEN Append(@, [id |-> messageId, from |-> fromPeerId,
                                      targets |-> RelayTargets(n, fromPeerId)])
                      ELSE @]
    /\ net' = rest (+) SetToBag(InFlight(writes))
    /\ lastEvent' = Event("onDataReceived", n, fromPeerId, data, "admitted", messageId,
                          writes, toApp, {})

\* onDataReceived lines 407-421, for a valid packet that is no duplicate:
\* toApp says whether handleMessage hands it to the delegate, relayed whether
\* relayMessage gets to its fan-out, writes are the writes the fan-out makes.
Process(n, fromPeerId, data, rest, packet, messageId, toApp, relayed, writes) ==
    /\ processedMessages' = [processedMessages EXCEPT ![n] = @ \cup {messageId}]
    /\ connectedPeers' =
         [connectedPeers EXCEPT ![n] =
            IF fromPeerId \in DOMAIN @
            THEN [@ EXCEPT ![fromPeerId] = [@ EXCEPT !.lastSeen = now]] ELSE @]
    /\ delivered' = [delivered EXCEPT ![n] = IF toApp THEN Append(@, messageId) ELSE @]
    /\ relayLog' = [relayLog EXCEPT ![n] =
                      IF relayed
                      THEN Append(@, [id |-> messageId, from |-> fromPeerId,
                                      targets |-> RelayTargets(n, fromPeerId)])
                      ELSE @]
    /\ net' = rest (+) SetToBag(InFlight(writes))
    /\ lastEvent' = Event("onDataReceived", n, fromPeerId, data, "admitted", messageId,
                          writes, toApp, {})

\* onDataReceived lines 401-405, for a valid packet.
Admit(n, fromPeerId, data, rest, packet, messageId) ==
    IF IsDuplicate(n, messageId)
    THEN /\ lastEvent' = Event("onDataReceived", n, fromPeerId, data, "duplicate",
                               messageId, {}, FALSE, {})
         /\ net' = rest
         /\ UNCHANGED <<processedMessages, connectedPeers, delivered, relayLog>>
    ELSE Process(n, fromPeerId, data, rest, packet, messageId,
                 IsDeliveredToApp(n, packet),
                 ShouldRelay(packet) /\ DecrementTTL(packet) # NoPacket,
                 IF ShouldRelay(packet) THEN RelayWrites(n, packet, fromPeerId) ELSE {})

\* onDataReceived lines 395-399, for what decode returned.
Receive(n, fromPeerId, data, rest, packet) ==
    IF packet = NoPacket \/ ~Validate(packet, now)
    THEN /\ lastEvent' = Event("onDataReceived", n, fromPeerId, data, "invalid", 0, {},
                               FALSE, {})
         /\ net' = rest
         /\ UNCHANGED <<processedMessages, connectedPeers, delivered, relayLog>>
    ELSE Admit(n, fromPeerId, data, rest, packet, GenerateMessageId(packet))

\* onDataReceived (lines 392-425) for data from peer fromPeerId, with
\* handleIncomingPacket, handleMessage and relayMessage; rest is what stays in
\* flight besides the data handled.
OnDataReceived(n, fromPeerId, data, rest) ==
    /\ received' = [received EXCEPT ![n] = Append(@, [from |-> fromPeerId, data |-> data])]
    /\ Receive(n, fromPeerId, data, rest, Decode(data))

\* Data from a connected peer that is outside the model (the listener of
\* startListeningToPeer, line 354, fires for connected peers only).
EnvInbound(n, fromPeerId, data) ==
    /\ n \in engines /\ Settled(n)
    /\ fromPeerId \in Peers(n) /\ fromPeerId \notin engines
    /\ Len(received[n]) < MaxInbound
    /\ OnDataReceived(n, fromPeerId, data, net)
    /\ UNCHANGED <<codecVars, isInitialized, isScanning, isAdvertising, delegate,
                   discoveredDevices, messageCache, timers, initPending, batteryMode,
                   scanParams, now, engines, disconnecting, realMesh, appPeers, stopped>>

\* A write in flight from another engine reaches node n.
Deliver(n, m) ==
    /\ n \in engines /\ Settled(n)
    /\ BagIn(m, net) /\ m.dst = n /\ m.src \in Peers(n)
    /\ OnDataReceived(n, m.src, m.data, net (-) SetToBag({m}))
    /\ UNCHANGED <<codecVars, isInitialized, isScanning, isAdvertising, delegate,
                   discoveredDevices, messageCache, timers, initPending, batteryMode,
                   scanParams, now, engines, disconnecting, realMesh, appPeers, stopped>>

\* The writes made so far from engine to engine: those in flight and those
\* handed over.
RECURSIVE HandedOver(_)
HandedOver(k) == IF k = 0 THEN 0 ELSE Len(received[k]) + HandedOver(k - 1)
Traffic == BagCardinality(net) + HandedOver(NumNodes)

\* sendMessage lines 136-147 for the encoded packet; a run holds at most
\* MaxTraffic writes by the time a send is made.
SendEncoded(op, n, packet, binaryData, messageId) ==
    /\ Traffic + Cardinality(InFlight(SendWrites(n, binaryData))) <= MaxTraffic
    /\ net' = net (+) SetToBag(InFlight(SendWrites(n, binaryData)))
    /\ messageCache' = [messageCache EXCEPT ![n] = WithKey(@, messageId, packet)]
    /\ lastEvent' = Event(op, n, 0, binaryData, "sent", messageId,
                          SendWrites(n, binaryData), FALSE, {})

\* sendMessage (lines 125-148) as called by op.
SendMessageAs(op, n, packet) ==
    IF ~isInitialized[n]
    THEN /\ lastEvent' = Event(op, n, 0, <<>>, "error", 0, {}, FALSE, {})
         /\ UNCHANGED <<messageCache, net>>
    ELSE SendEncoded(op, n, packet, Encode(packet), GenerateMessageId(packet))

SendMessage(n, packet) ==
    /\ n \in engines /\ Settled(n)
    /\ SendMessageAs("sendMessage", n, packet)
    /\ UNCHANGED <<codecVars, isInitialized, isScanning, isAdvertising, delegate,
                   connectedPeers, discoveredDevices, processedMessages, timers,
                   initPending, batteryMode, scanParams, now, engines, disconnecting, realMesh, delivered, received,
                   relayLog, appPeers, stopped>>

\* The cover-traffic interval fires: sendCoverTraffic (lines 512-537).
CoverTick(n, dummyData) ==
    /\ n \in engines /\ Settled(n)
    /\ timers[n].coverLive # {}
    /\ IF Cardinality(Peers(n)) = 0
       THEN /\ lastEvent' = Event("sendCoverTraffic", n, 0, <<>>, "nopeers", 0, {}, FALSE, {})
            /\ UNCHANGED <<messageCache, net>>
       ELSE SendMessageAs("sendCoverTraffic", n, CoverPacket(now, dummyData))
    /\ UNCHANGED <<codecVars, isInitialized, isScanning, isAdvertising, delegate,
                   connectedPeers, discoveredDevices, processedMessages, timers,
                   initPending, batteryMode, scanParams, now, engines, disconnecting, realMesh, delivered, received,
                   relayLog, appPeers, stopped>>

\* The peers a disconnectPeer call removes, with delegate?.onPeerDisconnected.
RemovePeers(n, gone) ==
    /\ connectedPeers' = [connectedPeers EXCEPT ![n] = [p \in DOMAIN @ \ gone |-> @[p]]]
    /\ appPeers' = [appPeers EXCEPT ![n] = IF delegate[n] THEN @ \ gone ELSE @]

\* The cleanup interval fires: cleanupStalePeers (lines 501-510), with the
\* disconnectPeer call made for each stale peer.
CleanupTick(n) ==
    /\ n \in engines /\ Settled(n)
    /\ timers[n].cleanupLive # {}
    /\ RemovePeers(n, StalePeers(n, now))
    /\ lastEvent' = Event("cleanupStalePeers", n, 0, <<>>, "ok", 0, {}, FALSE,
                          StalePeers(n, now))
    /\ UNCHANGED <<codecVars, isInitialized, isScanning, isAdvertising, delegate,
                   discoveredDevices, messageCache, processedMessages, timers,
                   initPending, batteryMode, scanParams, now, engines, disconnecting, realMesh, net, delivered, received,
                   relayLog, stopped>>

\* The cleanup interval fires, up to the point where cleanupStalePeers
\* returns (lines 501-510): every disconnectPeer call it has made is
\* suspended at await this.disconnectFromDevice(peerId) (line 186).
CleanupBegin(n) ==
    /\ n \in engines /\ Settled(n)
    /\ timers[n].cleanupLive # {}
    /\ disconnecting' = [disconnecting EXCEPT ![n] = @ \cup StalePeers(n, now)]
    /\ lastEvent' = Event("cleanupStalePeers", n, 0, <<>>, "suspended", 0, {}, FALSE,
                          StalePeers(n, now))
    /\ UNCHANGED <<codecVars, engineVars, now, engines, net, delivered, received,
                   relayLog, appPeers, stopped, realMesh>>

\* disconnectPeer after the await (lines 187-188).
DisconnectFinish(n, peerId) ==
    /\ n \in engines
    /\ peerId \in disconnecting[n]
    /\ RemovePeers(n, {peerId})
    /\ disconnecting' = [disconnecting EXCEPT ![n] = @ \ {peerId}]
    /\ lastEvent' = Event("disconnectPeer", n, peerId, <<>>, "ok", 0, {}, FALSE,
                          {peerId} \cap Peers(n))
    /\ UNCHANGED <<codecVars, isInitialized, isScanning, isAdvertising, delegate,
                   discoveredDevices, messageCache, processedMessages, timers,
                   initPending, batteryMode, scanParams, now, engines, net, delivered,
                   received, relayLog, stopped, realMesh>>

\* disconnectPeer (lines 183-190).
DisconnectPeer(n, peerId) ==
    /\ n \in engines /\ Settled(n)
    /\ RemovePeers(n, {peerId} \cap Peers(n))
    /\ lastEvent' = Event("disconnectPeer", n, peerId, <<>>, "ok", 0, {}, FALSE,
                          {peerId} \cap Peers(n))
    /\ UNCHANGED <<codecVars, isInitialized, isScanning, isAdvertising, delegate,
                   discoveredDevices, messageCache, processedMessages, timers,
                   initPending, batteryMode, scanParams, now, engines, disconnecting, realMesh, net, delivered, received,
                   relayLog, stopped>>

\* setBatteryMode that also disconnects the peers above the new ceiling.
SetBatteryModeTrimming(n, mode) ==
    /\ n \in engines /\ Settled(n)
    /\ batteryMode' = [batteryMode EXCEPT ![n] = mode]
    /\ scanParams' = [scanParams EXCEPT ![n] = UpdateScanParameters(mode)]
    /\ connectedPeers' =
         [connectedPeers EXCEPT ![n] =
            [p \in {q \in DOMAIN @ :
                      Cardinality({r \in DOMAIN @ : r < q})
                        < UpdateScanParameters(mode).maxConnections} |-> @[p]]]
    /\ lastEvent' = Event("setBatteryMode", n, 0, <<>>, mode, 0, {}, FALSE, {})
    /\ UNCHANGED <<codecVars, isInitialized, isScanning, isAdvertising, delegate,
                   discoveredDevices, messageCache, processedMessages,
                   timers, initPending, now, engines, disconnecting, realMesh, net, delivered, received, relayLog,
                   appPeers, stopped>>

\* setBatteryMode (lines 174-178), with updateScanParameters.
SetBatteryMode(n, mode) ==
    /\ n \in engines /\ Settled(n)
    /\ batteryMode' = [batteryMode EXCEPT ![n] = mode]
    /\ scanParams' = [scanParams EXCEPT ![n] = UpdateScanParameters(mode)]
    /\ lastEvent' = Event("setBatteryMode", n, 0, <<>>, mode, 0, {}, FALSE, {})
    /\ UNCHANGED <<codecVars, isInitialized, isScanning, isAdvertising, delegate,
                   connectedPeers, discoveredDevices, messageCache, processedMessages,
                   timers, initPending, now, engines, disconnecting, realMesh, net, delivered, received, relayLog,
                   appPeers, stopped>>

\* The holder of a peer object (getConnectedPeers and onPeerConnected hand
\* out the objects of the table themselves) marks it as not connected; from
\* then on sendDataToPeer throws for that peer (lines 381-384).
PeerLinkLost(n, peerId) ==
    /\ n \in engines /\ Settled(n)
    /\ peerId \in Peers(n)
    /\ connectedPeers[n][peerId].isConnected
    /\ connectedPeers' = [connectedPeers EXCEPT ![n][peerId].isConnected = FALSE]
    /\ lastEvent' = Event("peerLinkLost", n, peerId, <<>>, "ok", 0, {}, FALSE, {})
    /\ UNCHANGED <<codecVars, isInitialized, isScanning, isAdvertising, delegate,
                   discoveredDevices, messageCache, processedMessages, timers,
                   initPending, batteryMode, scanParams, now, engines, disconnecting, realMesh, net, delivered,
                   received, relayLog, appPeers, stopped>>

\* Time passes (Date.now() grows by step).
Tick(step) ==
    /\ now + step <= MaxTicks * ClockStep
    /\ now' = now + step
    /\ lastEvent' = Event("tick", 0, 0, <<>>, "ok", 0, {}, FALSE, {})
    /\ UNCHANGED <<codecVars, engineVars, engines, disconnecting, realMesh, net, delivered, received, relayLog, appPeers,
                   stopped>>

-----------------------------------------------------------------------------
(* Initial states.                                                         *)

\* A connectToPeer call that has not been made.
NoCall == [deviceId |-> 0, stage |-> "idle", passed |-> {}, inserted |-> FALSE, error |-> ""]

\* The service over react-native-ble-plx as its constructor leaves it.
RealConstructed ==
    [discoveredDevices |-> {}, connectedPeers |-> {}, emitted |-> <<>>,
     calls |-> [c \in 1..MaxCalls |-> NoCall]]

CodecIdle ==
    /\ wireSt = [phase |-> "idle"]
    /\ compSt = [phase |-> "idle"]
    /\ padSt = [phase |-> "idle"]

\* Every node as its constructor leaves it; es are the nodes that run an engine.
Constructed(es) ==
    /\ isInitialized = [n \in Node |-> FALSE]
    /\ isScanning = [n \in Node |-> FALSE]
    /\ isAdvertising = [n \in Node |-> FALSE]
    /\ delegate = [n \in Node |-> FALSE]
    /\ connectedPeers = [n \in Node |-> <<>>]
    /\ discoveredDevices = [n \in Node |-> {}]
    /\ messageCache = [n \in Node |-> <<>>]
    /\ processedMessages = [n \in Node |-> {}]
    /\ timers = [n \in Node |-> NoTimers]
    /\ initPending = [n \in Node |-> 0]
    /\ batteryMode = [n \in Node |-> "balanced"]
    /\ scanParams = [n \in Node |-> InitialScanParams]
    /\ now = 0
    /\ engines = es
    /\ net = EmptyBag
    /\ delivered = [n \in Node |-> <<>>]
    /\ relayLog = [n \in Node |-> <<>>]
    /\ received = [n \in Node |-> <<>>]
    /\ appPeers = [n \in Node |-> {}]
    /\ disconnecting = [n \in Node |-> {}]
    /\ realMesh = RealConstructed
    /\ stopped = [n \in Node |-> FALSE]
    /\ lastEvent = Event("constructed", 0, 0, <<>>, "ok", 0, {}, FALSE, {})

\* The nodes of es after initialize and startServices at clock 0, each
\* connected (by discovery at clock 0) to the peers links gives it.
Running(es, links) ==
    /\ isInitialized = [n \in Node |-> n \in es]
    /\ isScanning = [n \in Node |-> n \in es]
    /\ isAdvertising = [n \in Node |-> n \in es]
    /\ delegate = [n \in Node |-> n \in es]
    /\ connectedPeers = [n \in Node |-> [p \in links[n] |-> NewPeer(0)]]
    /\ discoveredDevices = [n \in Node |-> links[n]]
    /\ messageCache = [n \in Node |-> <<>>]
    /\ processedMessages = [n \in Node |-> {}]
    /\ timers = [n \in Node |->
                   IF n \in es
                   THEN [peerCleanupTimer |-> 1, coverTrafficTimer |-> 2,
                         scanDutyCycleTimer |-> 0, cleanupLive |-> {1}, coverLive |-> {2}]
                   ELSE NoTimers]
    /\ initPending = [n \in Node |-> 0]
    /\ batteryMode = [n \in Node |-> "balanced"]
    /\ scanParams = [n \in Node |-> InitialScanParams]
    /\ now = 0
    /\ engines = es
    /\ net = EmptyBag
    /\ delivered = [n \in Node |-> <<>>]
    /\ relayLog = [n \in Node |-> <<>>]
    /\ received = [n \in Node |-> <<>>]
    /\ appPeers = [n \in Node |-> links[n]]
    /\ disconnecting = [n \in Node |-> {}]
    /\ realMesh = RealConstructed
    /\ stopped = [n \in Node |-> FALSE]
    /\ lastEvent = Event("onDeviceDiscovered", 0, 0, <<>>, "connected", 0, {}, FALSE, {})

-----------------------------------------------------------------------------
(* Spec: one engine (node 1) from construction on; the other nodes are     *)
(* devices around it.                                                      *)

Engine == Min(1, NumNodes)

\* Packets the peers send towards the engine, and their wire bytes.
PeerSender == <<80, 1>>
HelloPacket(ttl) == MkPacket(MESSAGE, ttl, 0, PeerSender, NoBytes, <<72, 105>>, NoBytes)
AnnouncePacket(ttl) == MkPacket(ANNOUNCE, ttl, 0, PeerSender, NoBytes, <<78>>, NoBytes)

\* Packets the application sends.
AppSender == <<10, 20, 30>>
AppPacket(ttl) == MkPacket(MESSAGE, ttl, 0, AppSender, NoBytes, <<79, 75>>, NoBytes)

\* The packet the application sends with the full ttl, and the bytes of the
\* message a peer sends.
FullTtlPacket == AppPacket(MAX_TTL)
HelloWire == Encode(HelloPacket(3))

\* The devices in range of the engine, and what the timers draw.
LifecycleDevices == {2, 3}
LifecycleDummy == {Rep(17, DummyDataLen)}
LifecycleWire == {Encode(HelloPacket(3))}
LifecyclePackets == {AppPacket(MAX_TTL)}

Init == CodecIdle /\ Constructed({Engine})

Next ==
    \/ \E n \in Node : InitializeBegin(n)
    \/ \E n \in Node : InitializeFinish(n)
    \/ \E n \in Node : StartServices(n)
    \/ \E n \in Node : StopServices(n)
    \/ \E n \in Node, device \in LifecycleDevices, rssi \in RssiValues :
          DeviceDiscovered(n, device, rssi)
    \/ \E n \in Node, from \in Node, data \in LifecycleWire : EnvInbound(n, from, data)
    \/ \E n \in Node, packet \in LifecyclePackets : SendMessage(n, packet)
    \/ \E n \in Node, dummyData \in LifecycleDummy : CoverTick(n, dummyData)
    \/ \E n \in Node : CleanupTick(n)
    \/ \E n \in Node, peerId \in LifecycleDevices : DisconnectPeer(n, peerId)
    \/ Tick(ClockStep)

Spec == Init /\ [][Next]_vars

\* C9: once stopServices has completed, the cleanup timer and the cover
\* timer do not fire, the scan duty-cycle timer is cancelled, and no peer is
\* connected.
C9_StopCancelsTimers ==
    \A n \in engines :
        stopped[n]
        => /\ Peers(n) = {}
           /\ timers[n].scanDutyCycleTimer = 0
           /\ ~(/\ lastEvent.node = n
                /\ lastEvent.op \in {"cleanupStalePeers", "sendCoverTraffic"})

-----------------------------------------------------------------------------
(* SpecRelay: one running engine with connected peers; the peers hand it   *)
(* wire bytes.                                                             *)

\* The wire bytes the peers send: the same message with two ttl values (one
\* message id), another message that arrives expired, an announcement, the
\* bytes a peer's sendCoverTraffic writes, and bytes of a wrong version.
OtherPacket(ttl) == MkPacket(MESSAGE, ttl, 0, PeerSender, NoBytes, <<66, 121, 101>>, NoBytes)
RelayWire ==
    { Encode(HelloPacket(3)), Encode(HelloPacket(0)), Encode(OtherPacket(0)),
      Encode(AnnouncePacket(2)), Encode(CoverPacket(0, Rep(17, DummyDataLen))),
      Tamper("version", Encode(HelloPacket(3))) }

\* The engine is connected to the devices 2..k.
InitRelay ==
    /\ CodecIdle
    /\ \E k \in 2..NumNodes :
          Running({Engine}, [n \in Node |-> IF n = Engine THEN 2..k ELSE {}])

NextRelay ==
    \E n \in Node, from \in Node, data \in RelayWire : EnvInbound(n, from, data)

SpecRelay == InitRelay /\ [][NextRelay]_vars

\* The bytes decode to a packet that validate accepts.
ValidWire(data) == Decode(data) # NoPacket /\ Validate(Decode(data), now)

\* The message id of the packet the bytes decode to.
WireId(data) == GenerateMessageId(Decode(data))

\* The onDataReceived calls of node n before the last one.
Earlier(n) == SubSeq(received[n], 1, Len(received[n]) - 1)

\* Before its last onDataReceived call node n had been handed these bytes.
SameBytesBefore(n, data) == \E i \in DOMAIN Earlier(n) : Earlier(n)[i].data = data

\* Before its last onDataReceived call node n had been handed valid bytes
\* of this message id.
SeenBefore(n, id) ==
    \E i \in DOMAIN Earlier(n) :
        ValidWire(Earlier(n)[i].data) /\ WireId(Earlier(n)[i].data) = id

\* How often id was handed to the application / fanned out by node n.
Deliveries(n, id) == Cardinality({i \in DOMAIN delivered[n] : delivered[n][i] = id})
FanOuts(n, id) == Cardinality({i \in DOMAIN relayLog[n] : relayLog[n][i].id = id})

\* The last step was onDataReceived on valid bytes.
ReceivedValid ==
    /\ lastEvent.op = "onDataReceived"
    /\ ValidWire(lastEvent.data)

\* C4 as stated: once the same bytes of a valid Message packet have been
\* handed to the engine twice, exactly one local delivery and exactly one
\* relay fan-out have occurred for it, whatever the state it arrived in.
C4_ExactlyOneDeliveryAndRelay ==
    (/\ ReceivedValid
     /\ Decode(lastEvent.data).type = MESSAGE
     /\ SameBytesBefore(lastEvent.node, lastEvent.data))
    => /\ Deliveries(lastEvent.node, lastEvent.id) = 1
       /\ FanOuts(lastEvent.node, lastEvent.id) = 1

\* C4 amended: the second arrival of the same valid Message bytes causes no
\* delivery, no relay and no write; no id is ever delivered or fanned out
\* twice; and the first arrival of an id not seen before causes exactly one
\* local delivery, and exactly one relay fan-out when ttl > 0, none when
\* ttl = 0.
C4_DedupIdempotence ==
    /\ \A n \in engines :
          /\ \A i \in DOMAIN delivered[n] : Deliveries(n, delivered[n][i]) = 1
          /\ \A i \in DOMAIN relayLog[n] : FanOuts(n, relayLog[n][i].id) = 1
    /\ (ReceivedValid /\ Decode(lastEvent.data).type = MESSAGE)
       => /\ SameBytesBefore(lastEvent.node, lastEvent.data)
             => /\ lastEvent.writes = {}
                /\ ~lastEvent.toApp
                /\ lastEvent.outcome = "duplicate"
          /\ ~SeenBefore(lastEvent.node, WireId(lastEvent.data))
             => /\ lastEvent.toApp
                /\ Deliveries(lastEvent.node, WireId(lastEvent.data)) = 1
                /\ FanOuts(lastEvent.node, WireId(lastEvent.data))
                     = (IF Decode(lastEvent.data).ttl > 0 THEN 1 ELSE 0)

\* The same valid Message bytes (ttl > 0) have just arrived a second time,
\* from another peer than the first time.
C4_Witness ==
    /\ ReceivedValid
    /\ Decode(lastEvent.data).type = MESSAGE
    /\ Decode(lastEvent.data).ttl > 0
    /\ \E i \in DOMAIN Earlier(lastEvent.node) :
          /\ Earlier(lastEvent.node)[i].data = lastEvent.data
          /\ Earlier(lastEvent.node)[i].from # lastEvent.peer
    /\ Deliveries(lastEvent.node, lastEvent.id) = 1
    /\ FanOuts(lastEvent.node, lastEvent.id) = 1

\* C5: a valid, not-yet-seen packet with ttl = t > 0 from connected peer P is
\* written to every connected peer other than P and to nobody else, as an
\* encoding of the same packet with ttl = t - 1.
C5_FloodRelay ==
    (/\ ReceivedValid
     /\ ~SeenBefore(lastEvent.node, WireId(lastEvent.data))
     /\ Decode(lastEvent.data).ttl > 0)
    => /\ {w.dst : w \in lastEvent.writes} = Peers(lastEvent.node) \ {lastEvent.peer}
       /\ \A w \in lastEvent.writes :
             /\ w.src = lastEvent.node
             /\ Decode(w.data) = [Decode(lastEvent.data) EXCEPT !.ttl = @ - 1]

\* A packet with ttl 3 from peer 2 has been relayed to the two other peers.
C5_Witness ==
    /\ ReceivedValid
    /\ Decode(lastEvent.data).ttl = 3
    /\ lastEvent.peer = 2
    /\ {w.dst : w \in lastEvent.writes} = {3, 4}

\* C6: a valid, not-yet-seen packet with ttl = 0 enters the DedupCache, is
\* delivered to the application if it is a Message, and causes no write.
C6_ExpiredAdmittedNotRelayed ==
    (/\ ReceivedValid
     /\ ~SeenBefore(lastEvent.node, WireId(lastEvent.data))
     /\ Decode(lastEvent.data).ttl = 0)
    => /\ WireId(lastEvent.data) \in processedMessages[lastEvent.node]
       /\ lastEvent.toApp = (Decode(lastEvent.data).type = MESSAGE)
       /\ (lastEvent.toApp
           => Deliveries(lastEvent.node, WireId(lastEvent.data)) = 1)
       /\ lastEvent.writes = {}
       /\ FanOuts(lastEvent.node, WireId(lastEvent.data)) = 0

\* A Message with ttl 0 has arrived at an engine with three peers and has
\* been delivered to the application.
C6_Witness ==
    /\ ReceivedValid
    /\ Decode(lastEvent.data).ttl = 0
    /\ Decode(lastEvent.data).type = MESSAGE
    /\ ~SeenBefore(lastEvent.node, WireId(lastEvent.data))
    /\ Cardinality(Peers(lastEvent.node)) = 3
    /\ lastEvent.toApp

-----------------------------------------------------------------------------
(* SpecMesh: every mesh node runs an engine; what one engine writes to a   *)
(* peer is handed to that peer's onDataReceived.                           *)

\* The nodes in a line, each connected to its neighbours, and all connected
\* to all.
LineLinks == [n \in Node |-> {m \in MeshNodes : n \in MeshNodes /\ (m = n - 1 \/ m = n + 1)}]
FullLinks == [n \in Node |-> {m \in MeshNodes : n \in MeshNodes /\ m # n}]

MeshDummy == {Rep(17, DummyDataLen)}
MeshPackets == {AppPacket(2)}

InitMesh ==
    /\ CodecIdle
    /\ \E links \in {LineLinks, FullLinks} : Running(MeshNodes, links)

NextMesh ==
    \/ \E n \in Node, dummyData \in MeshDummy : CoverTick(n, dummyData)
    \/ \E n \in Node, packet \in MeshPackets : SendMessage(n, packet)
    \/ \E n \in Node : \E m \in DOMAIN net : Deliver(n, m)

SpecMesh == InitMesh /\ [][NextMesh]_vars

\* The engines that have emitted cover traffic of this message id
\* (sendMessage keeps what it sent in messageCache).
CoverEmitters(id) ==
    {e \in engines : /\ id \in DOMAIN messageCache[e]
                     /\ messageCache[e][id].senderID = CoverSenderID
                     /\ messageCache[e][id].ttl = CoverTtl}

\* The last step was onDataReceived on a cover packet some engine emitted.
ReceivedCover ==
    /\ ReceivedValid
    /\ Decode(lastEvent.data).senderID = CoverSenderID
    /\ CoverEmitters(WireId(lastEvent.data)) # {}

\* C7: a cover packet is received only from its emitter, by a directly
\* connected peer, and the peer that receives it writes it to nobody.
C7_CoverTrafficOneHop ==
    ReceivedCover
    => /\ lastEvent.peer \in CoverEmitters(WireId(lastEvent.data))
       /\ lastEvent.writes = {}

\* C8: receiving a cover packet another engine emitted causes no
\* onMessageReceived call.
C8_CoverNotDeliveredToApp ==
    (ReceivedCover /\ lastEvent.node \notin CoverEmitters(WireId(lastEvent.data)))
    => /\ ~lastEvent.toApp
       /\ Deliveries(lastEvent.node, WireId(lastEvent.data)) = 0

-----------------------------------------------------------------------------
(* SpecCompress: compress, then decompress with the length of the input,   *)
(* on drawn byte strings.                                                  *)

CompressDrawn == CompressInputs \cup {Ramp(130), Rep(65, 127), Rep(65, 128)}

InitCompress ==
    /\ compSt \in {[phase |-> "input", data |-> d, compressed |-> NoBytes,
                    restored |-> NoBytes] : d \in CompressDrawn}
    /\ wireSt = [phase |-> "idle"]
    /\ padSt = [phase |-> "idle"]
    /\ Constructed({})

CompressStep ==
    /\ compSt.phase = "input"
    /\ compSt' = [compSt EXCEPT !.phase = "compressed",
                                !.compressed = Compress(compSt.data)]
    /\ UNCHANGED <<wireSt, padSt, engineVars, envVars>>

\* decode's call: decompress(c, original size), made when compress gave c.
DecompressStep ==
    /\ compSt.phase = "compressed"
    /\ compSt.compressed # NoBytes
    /\ compSt' = [compSt EXCEPT !.phase = "restored",
                                !.restored = Decompress(compSt.compressed,
                                                        Len(compSt.data))]
    /\ UNCHANGED <<wireSt, padSt, engineVars, envVars>>

NextCompress == CompressStep \/ DecompressStep

SpecCompress == InitCompress /\ [][NextCompress]_vars

\* C2: whenever compress(b) returned c (not null), decompress(c, len(b)) is b
\* byte for byte.
C2_CompressionInvertible ==
    compSt.phase = "restored" => compSt.restored = compSt.data

-----------------------------------------------------------------------------
(* SpecPad: pad to a drawn target with drawn filler, then unpad.           *)

\* What getRandomBytes(len) may return: every byte string over FillerBytes
\* when short, the constant ones when long.
RandomFill(len) ==
    IF len <= 0 THEN {<<>>}
    ELSE IF len <= MaxTarget THEN [1..len -> FillerBytes]
    ELSE {Rep(f, len) : f \in FillerBytes}

InitPad ==
    /\ padSt \in {[phase |-> "input", data |-> d, targetSize |-> t,
                   padded |-> NoBytes, unpadded |-> NoBytes] :
                     d \in PadInputs, t \in PadTargets}
    /\ wireSt = [phase |-> "idle"]
    /\ compSt = [phase |-> "idle"]
    /\ Constructed({})

PadStep(randomBytes) ==
    /\ padSt.phase = "input"
    /\ padSt' = [padSt EXCEPT !.phase = "padded",
                              !.padded = Pad(padSt.data, padSt.targetSize, randomBytes)]
    /\ UNCHANGED <<wireSt, compSt, engineVars, envVars>>

UnpadStep ==
    /\ padSt.phase = "padded"
    /\ padSt' = [padSt EXCEPT !.phase = "unpadded", !.unpadded = Unpad(padSt.padded)]
    /\ UNCHANGED <<wireSt, compSt, engineVars, envVars>>

NextPad ==
    \/ \E randomBytes \in RandomFill(padSt.targetSize - Len(padSt.data) - 1) :
          PadStep(randomBytes)
    \/ UnpadStep

SpecPad == InitPad /\ [][NextPad]_vars

\* C3: for 1 <= n - len(b) <= 255 and every filler pad may draw,
\* unpad(pad(b, n)) is b.
C3_PaddingInvertible ==
    (/\ padSt.phase = "unpadded"
     /\ padSt.targetSize - Len(padSt.data) >= 1
     /\ padSt.targetSize - Len(padSt.data) <= MAX_PADDING)
    => padSt.unpadded = padSt.data

-----------------------------------------------------------------------------
(* SpecWire: encode a drawn packet, possibly alter the bytes, decode.      *)

InitWire ==
    /\ wireSt \in {[phase |-> "input", packet |-> p, wire |-> NoBytes,
                    tamper |-> "none", decoded |-> NoPacket] : p \in WirePackets}
    /\ compSt = [phase |-> "idle"]
    /\ padSt = [phase |-> "idle"]
    /\ Constructed({})

EncodeStep ==
    /\ wireSt.phase = "input"
    /\ wireSt' = [wireSt EXCEPT !.phase = "encoded", !.wire = Encode(wireSt.packet)]
    /\ UNCHANGED <<compSt, padSt, engineVars, envVars>>

\* The transport hands over other bytes than were written.
TamperStep(kind) ==
    /\ wireSt.phase = "encoded"
    /\ wireSt' = [wireSt EXCEPT !.phase = "tampered", !.tamper = kind,
                                !.wire = Tamper(kind, wireSt.wire)]
    /\ UNCHANGED <<compSt, padSt, engineVars, envVars>>

DecodeStep ==
    /\ wireSt.phase \in {"encoded", "tampered"}
    /\ wireSt' = [wireSt EXCEPT !.phase = "decoded", !.decoded = Decode(wireSt.wire)]
    /\ UNCHANGED <<compSt, padSt, engineVars, envVars>>

NextWire ==
    \/ EncodeStep
    \/ \E kind \in TamperKinds : TamperStep(kind)
    \/ DecodeStep

SpecWire == InitWire /\ [][NextWire]_vars

\* Two optional id / signature fields agree, ids up to trailing zero bytes.
SameId(a, b) == TrimNullBytes(a) = TrimNullBytes(b)
SameOptional(a, b) == (a = NoBytes) = (b = NoBytes)

\* p and q agree in version, type, ttl, timestamp, senderID, recipientID,
\* payload and signature, the ids up to trailing zero bytes.
SamePacket(p, q) ==
    /\ q # NoPacket
    /\ p.version = q.version /\ p.type = q.type /\ p.ttl = q.ttl
    /\ p.timestamp = q.timestamp
    /\ SameId(p.senderID, q.senderID)
    /\ SameOptional(p.recipientID, q.recipientID)
    /\ (p.recipientID # NoBytes => SameId(p.recipientID, q.recipientID))
    /\ p.payload = q.payload
    /\ p.signature = q.signature

\* C1: for every valid packet p, decode(encode(p)) equals p field by field
\* (ids up to trailing zero bytes), compressed payload or not.
C1_WireRoundTrip ==
    (/\ wireSt.phase = "decoded"
     /\ wireSt.tamper = "none"
     /\ Validate(wireSt.packet, now))
    => SamePacket(wireSt.packet, wireSt.decoded)

\* The length after the header differs from expectedLength, whether the
\* header is taken as the HEADER_SIZE bytes of the length test or as the
\* HeaderEnd bytes encode writes before the sender id.
LengthMismatch(data) ==
    /\ Len(data) >= HEADER_SIZE
    /\ \/ Len(data) < HEADER_SIZE + ExpectedLength(data)
       \/ Len(data) > HeaderEnd + ExpectedLength(data)

\* C10: decode returns no packet for bytes whose length after the header
\* differs from expectedLength, too short or too long.
C10_DecodeRejectsLengthMismatch ==
    (wireSt.phase = "decoded" /\ LengthMismatch(wireSt.wire))
    => wireSt.decoded = NoPacket

\* The compressed section of bytes with the isCompressed flag, and the
\* original size recorded after it.
CompressedSection(data) ==
    Slice(data, PayloadAt(data), PayloadAt(data) + (WirePayloadLength(data) - 2))
RecordedSize(data) ==
    At(data, PayloadAt(data) + (WirePayloadLength(data) - 2)) * 256
    + At(data, PayloadAt(data) + (WirePayloadLength(data) - 2) + 1)

\* C11: decode returns no packet for bytes with the isCompressed flag whose
\* compressed section does not decompress to the recorded original size.
C11_DecompressFailureIsHard ==
    (/\ wireSt.phase = "decoded"
     /\ Len(wireSt.wire) >= HEADER_SIZE
     /\ LengthAccepted(wireSt.wire)
     /\ HasBit(WireFlags(wireSt.wire), FLAG_IS_COMPRESSED)
     /\ Len(Decompress(CompressedSection(wireSt.wire), RecordedSize(wireSt.wire)))
          # RecordedSize(wireSt.wire))
    => wireSt.decoded = NoPacket

\* C12: decode returns no packet for bytes whose version byte is not VERSION.
C12_DecodeRejectsVersionMismatch ==
    (/\ wireSt.phase = "decoded"
     /\ Len(wireSt.wire) >= 1
     /\ At(wireSt.wire, 0) # VERSION)
    => wireSt.decoded = NoPacket

-----------------------------------------------------------------------------
(* Inbound bytes that decode or validate turn down.                        *)

\* Bytes a peer can send that the engine has to drop: a wrong version, a ttl
\* above MAX_TTL, a payload that decompresses to more than MAX_PAYLOAD_SIZE
\* bytes, a timestamp more than five minutes ahead of the engine's clock, and
\* a frame cut after its header, which decode turns down.
BadVersionWire == Tamper("version", Encode(HelloPacket(3)))
BadTtlWire == Encode(HelloPacket(MAX_TTL + 1))
OversizedWire ==
    Encode(MkPacket(MESSAGE, 3, 0, PeerSender, NoBytes, Rep(65, MAX_PAYLOAD_SIZE + 1), NoBytes))
FutureWire ==
    Encode(MkPacket(MESSAGE, 3, MaxFutureMs + 1, PeerSender, NoBytes, <<72, 105>>, NoBytes))
CutWire == Tamper("headerOnly", Encode(HelloPacket(3)))
InvalidWire == {BadVersionWire, BadTtlWire, OversizedWire, FutureWire, CutWire}

NextInvalid ==
    \E n \in Node, from \in Node, data \in InvalidWire \cup {Encode(HelloPacket(3))} :
        EnvInbound(n, from, data)

SpecInvalid == InitRelay /\ [][NextInvalid]_vars

\* The bytes fail decode, or decode to a packet of a wrong version, of a ttl
\* above MAX_TTL, of a payload above MAX_PAYLOAD_SIZE or of a timestamp more
\* than MaxFutureMs ahead of clock.
TurnedDown(data, clock) ==
    \/ Decode(data) = NoPacket
    \/ Decode(data).version # VERSION
    \/ Decode(data).ttl > MAX_TTL
    \/ Len(Decode(data).payload) > MAX_PAYLOAD_SIZE
    \/ Decode(data).timestamp > clock + MaxFutureMs

\* C13: an onDataReceived call on bytes that fail decode or validate changes
\* no engine state: no id enters processedMessages, no lastSeen changes,
\* nothing is delivered, nothing is relayed or written, nothing is cached, and
\* the handler returns by its drop path.
C13_InvalidInboundDropped ==
    [][(/\ lastEvent'.op = "onDataReceived"
        /\ received' # received
        /\ TurnedDown(lastEvent'.data, now))
       => (/\ UNCHANGED <<processedMessages, connectedPeers, delivered, relayLog, net,
                          messageCache, appPeers>>
           /\ lastEvent'.writes = {}
           /\ ~lastEvent'.toApp
           /\ lastEvent'.outcome = "invalid")]_vars

\* An engine that has admitted a packet was then handed the bytes of the
\* oversized payload.
C13_Witness ==
    /\ lastEvent.op = "onDataReceived"
    /\ lastEvent.data = OversizedWire
    /\ Decode(OversizedWire) # NoPacket
    /\ Len(Decode(OversizedWire).payload) > MAX_PAYLOAD_SIZE
    /\ Len(received[lastEvent.node]) = 2
    /\ processedMessages[lastEvent.node] # {}
    /\ delivered[lastEvent.node] # <<>>

-----------------------------------------------------------------------------
(* decrementTTL applied over and over.                                     *)

\* The packets the chain starts from: every ttl of 0..MAX_TTL, with and
\* without a recipient and a signature.
TtlPackets ==
    { MkPacket(type, ttl, 1000, senderID, recipientID, payload, signature) :
        type \in {MESSAGE, ANNOUNCE}, ttl \in 0..MAX_TTL, senderID \in WireSenders,
        recipientID \in WireRecipients, payload \in {<<>>, <<72, 105>>},
        signature \in WireSignatures }

\* start is the packet the chain began with, packet what the last call
\* returned, calls the number of decrementTTL calls made.
InitTtl ==
    /\ Constructed({})
    /\ compSt = [phase |-> "idle"]
    /\ padSt = [phase |-> "idle"]
    /\ \E p \in TtlPackets :
          wireSt = [phase |-> "ttl", start |-> p, packet |-> p, calls |-> 0]

DecrementStep ==
    /\ wireSt.phase = "ttl"
    /\ wireSt.packet # NoPacket
    /\ wireSt' = [wireSt EXCEPT !.packet = DecrementTTL(wireSt.packet), !.calls = @ + 1]
    /\ UNCHANGED <<compSt, padSt, engineVars, envVars>>

NextTtl == DecrementStep

SpecTtl == InitTtl /\ [][NextTtl]_vars

\* C14: from a packet of ttl k in 0..MAX_TTL, the first k decrementTTL calls
\* return packets of ttl k-1, ..., 0 that differ from the start in nothing but
\* the ttl, and call k+1 returns no packet; no ttl is ever negative.
C14_TtlMonotonicity ==
    wireSt.phase = "ttl" =>
        IF wireSt.calls <= wireSt.start.ttl
        THEN /\ wireSt.packet # NoPacket
             /\ wireSt.packet = [wireSt.start EXCEPT !.ttl = wireSt.start.ttl - wireSt.calls]
             /\ wireSt.packet.ttl >= 0
        ELSE /\ wireSt.calls = wireSt.start.ttl + 1
             /\ wireSt.packet = NoPacket

\* A chain from ttl MAX_TTL has run out after MAX_TTL + 1 calls.
C14_Witness ==
    /\ wireSt.phase = "ttl"
    /\ wireSt.start.ttl = MAX_TTL
    /\ wireSt.calls = MAX_TTL + 1
    /\ wireSt.packet = NoPacket

-----------------------------------------------------------------------------
(* What the caches hold.                                                   *)

\* C15: every Message packet the engine has processed is in messageCache
\* under its id: the packet a sendMessage call has sent, and every valid
\* Message packet the engine has been handed by a peer (each is admitted, or
\* is a duplicate of one admitted before).
C15_StoreAndForwardInsertion ==
    \A n \in engines :
        /\ (/\ lastEvent.node = n
            /\ lastEvent.op \in {"sendMessage", "sendCoverTraffic"}
            /\ lastEvent.outcome = "sent")
           => lastEvent.id \in DOMAIN messageCache[n]
        /\ \A i \in DOMAIN received[n] :
              (/\ ValidWire(received[n][i].data)
               /\ Decode(received[n][i].data).type = MESSAGE)
              => WireId(received[n][i].data) \in DOMAIN messageCache[n]

\* A capacity put to the caches: the runs hand an engine more distinct
\* packets than this.
CacheCapacity == 1

\* C16: processedMessages never holds more than a fixed number of ids,
\* whatever packets of distinct ids are admitted.
C16_DedupCacheBounded ==
    \A n \in engines : Cardinality(processedMessages[n]) <= CacheCapacity

\* C17: messageCache never holds more than a fixed number of packets,
\* whatever is sent and admitted.
C17_MessageCacheBounded ==
    \A n \in engines : Cardinality(DOMAIN messageCache[n]) <= CacheCapacity

-----------------------------------------------------------------------------
(* Stale peers: an engine with two peers, the clock and the cleanup timer. *)

\* The bytes the peers send: two messages of distinct ids.
StaleWire == {Encode(HelloPacket(3)), Encode(OtherPacket(0))}

\* The clock moves by the stale threshold or by ClockStep.
StaleSteps == {StaleThreshold, ClockStep}

InitStale ==
    /\ CodecIdle
    /\ Running({Engine}, [n \in Node |-> IF n = Engine THEN {2, 3} ELSE {}])

NextStale ==
    \/ \E n \in Node, from \in {2, 3}, data \in StaleWire : EnvInbound(n, from, data)
    \/ \E n \in Node : CleanupTick(n)
    \/ \E step \in StaleSteps : Tick(step)

SpecStale == InitStale /\ [][NextStale]_vars

\* C18: a cleanupStalePeers run at clock now removes every peer with
\* now - lastSeen > 300000 and has called disconnectPeer for it, and leaves
\* every peer with now - lastSeen <= 300000 in the table as it was.
C18_StalePeerEviction ==
    [][lastEvent'.op = "cleanupStalePeers" =>
         \A p \in Peers(lastEvent'.node) :
            IF now - connectedPeers[lastEvent'.node][p].lastSeen > 300000
            THEN /\ p \notin DOMAIN connectedPeers'[lastEvent'.node]
                 /\ p \in lastEvent'.disconnects
            ELSE /\ p \in DOMAIN connectedPeers'[lastEvent'.node]
                 /\ connectedPeers'[lastEvent'.node][p] = connectedPeers[lastEvent'.node][p]
                 /\ p \notin lastEvent'.disconnects]_vars

\* A cleanup run has removed a stale peer and kept a peer whose lastSeen had
\* been refreshed.
C18_Witness ==
    /\ lastEvent.op = "cleanupStalePeers"
    /\ lastEvent.disconnects # {}
    /\ \E p \in Peers(lastEvent.node) :
          /\ connectedPeers[lastEvent.node][p].lastSeen > 0
          /\ now - connectedPeers[lastEvent.node][p].lastSeen <= 300000
    /\ \A p \in lastEvent.disconnects : p \notin Peers(lastEvent.node)

\* C19: every onDataReceived call for data from a connected peer, the data
\* of a packet whose id is already in processedMessages included, leaves the
\* peer's lastSeen at the current time.
C19_LastSeenRefreshedOnAnyInbound ==
    (/\ lastEvent.op = "onDataReceived"
     /\ lastEvent.peer \in Peers(lastEvent.node))
    => connectedPeers[lastEvent.node][lastEvent.peer].lastSeen = now

-----------------------------------------------------------------------------
(* Connection admission: an engine among MaxDevices devices.               *)

MaxDevices == 5
Devices == 2..(MaxDevices + 1)

\* The rssi values of the advertisements: missing, 0, below, at and above
\* the threshold.
AdmissionRssi == RssiValues \cup {0, RssiThreshold}

InitAdmission ==
    /\ CodecIdle
    /\ Running({Engine}, [n \in Node |-> {}])

\* The modes the application switches between: ceilings 4 and 8.
AdmissionModes == {"aggressive", "balanced"}

NextAdmission ==
    \/ \E n \in Node, device \in Devices, rssi \in AdmissionRssi :
          DeviceDiscovered(n, device, rssi)
    \/ \E n \in Node, mode \in AdmissionModes : SetBatteryMode(n, mode)
    \/ \E n \in Node, peerId \in Devices : DisconnectPeer(n, peerId)

SpecAdmission == InitAdmission /\ [][NextAdmission]_vars

\* C20: an onDeviceDiscovered call made when the table holds maxConnections
\* peers or more, or for a device whose rssi is missing or below -80, leaves
\* the peer table as it was and does not call onPeerConnected.
C20_ConnectionAdmission ==
    [][(/\ lastEvent'.op = "onDeviceDiscovered"
        /\ \/ Cardinality(Peers(lastEvent'.node)) >= scanParams[lastEvent'.node].maxConnections
           \/ lastEvent'.data[1] = NoRssi
           \/ lastEvent'.data[1] < 0 - 80)
       => (/\ connectedPeers' = connectedPeers
           /\ appPeers' = appPeers
           /\ ~lastEvent'.toApp)]_vars

\* A device of good signal that is not a peer was discovered by an engine
\* whose table holds maxConnections peers, and is still not a peer.
C20_Witness ==
    /\ lastEvent.op = "onDeviceDiscovered"
    /\ lastEvent.node \in engines
    /\ lastEvent.data[1] >= 0 - 80 /\ lastEvent.data[1] < 0
    /\ Cardinality(Peers(lastEvent.node)) = scanParams[lastEvent.node].maxConnections
    /\ lastEvent.peer \notin Peers(lastEvent.node)
    /\ lastEvent.peer \notin appPeers[lastEvent.node]

-----------------------------------------------------------------------------
(* Battery modes: an engine connected to every device, its mode switched   *)
(* while it receives and sends.                                            *)

InitBattery ==
    /\ CodecIdle
    /\ Running({Engine}, [n \in Node |-> IF n = Engine THEN Devices ELSE {}])

NextBattery ==
    \/ \E n \in Node, mode \in Modes : SetBatteryMode(n, mode)
    \/ \E n \in Node, from \in Devices : EnvInbound(n, from, HelloWire)
    \/ \E n \in Node : SendMessage(n, FullTtlPacket)

SpecBattery == InitBattery /\ [][NextBattery]_vars

\* The row of the duty-cycle table for a mode: scan active ms, scan pause
\* ms, maxConnections.
DutyCycleRow(mode) ==
    CASE mode = "aggressive"  -> <<5000, 5000, 4>>
      [] mode = "balanced"    -> <<10000, 2000, 8>>
      [] mode = "performance" -> <<15000, 1000, 12>>
      [] mode = "maximum"     -> <<20000, 500, 16>>

\* C21: in every state of an engine, scanInterval, scanPause and
\* maxConnections are the row of the duty-cycle table for its battery mode.
C21_DutyCycleTable ==
    \A n \in engines :
        <<scanParams[n].scanInterval, scanParams[n].scanPause, scanParams[n].maxConnections>>
          = DutyCycleRow(batteryMode[n])

\* setBatteryMode("maximum") has just returned.
C21_Witness ==
    /\ lastEvent.op = "setBatteryMode"
    /\ lastEvent.node \in engines
    /\ lastEvent.outcome = "maximum"
    /\ batteryMode[lastEvent.node] = "maximum"

\* C22: a setBatteryMode call changes the battery mode and the three
\* duty-cycle parameters and nothing else: the connected peers, the ids in
\* processedMessages and the packets in messageCache stay as they were.
C22_ModeSwitchDropsNothing ==
    [][lastEvent'.op = "setBatteryMode" =>
         UNCHANGED <<connectedPeers, processedMessages, messageCache, discoveredDevices,
                     appPeers, isInitialized, isScanning, isAdvertising, timers, net,
                     delivered, relayLog>>]_vars

\* setBatteryMode has set a ceiling below the number of connected peers of
\* an engine that holds an id in processedMessages and a packet in
\* messageCache.
C22_Witness ==
    /\ lastEvent.op = "setBatteryMode"
    /\ lastEvent.node \in engines
    /\ Cardinality(Peers(lastEvent.node)) > scanParams[lastEvent.node].maxConnections
    /\ processedMessages[lastEvent.node] # {}
    /\ DOMAIN messageCache[lastEvent.node] # {}

-----------------------------------------------------------------------------
(* Write failures: an engine whose peers drop out one by one while it      *)
(* sends and relays.                                                       *)

\* The bytes the peers send: a message, and one that arrives expired.
FailureWire == {Encode(HelloPacket(3)), Encode(OtherPacket(0))}

NextFailure ==
    \/ \E n \in Node, peerId \in Node : PeerLinkLost(n, peerId)
    \/ \E n \in Node : SendMessage(n, FullTtlPacket)
    \/ \E n \in Node, from \in Node, data \in FailureWire :
          EnvInbound(n, from, data)

SpecFailure == InitRelay /\ [][NextFailure]_vars

\* The peers a write of the last handler went to.
WrittenTo == {w.dst : w \in lastEvent.writes}

\* The peers of node n that sendDataToPeer does not throw for.
Reachable(n) == {p \in Peers(n) : connectedPeers[n][p].isConnected}

\* C23: a sendMessage call on an initialized engine returns normally and has
\* written to every peer the write does not fail for, and the relay of an
\* admitted packet of ttl above 0 has written to every such peer but the
\* one it came from, however many of the other writes failed.
C23_WriteFailuresIsolated ==
    /\ (lastEvent.op = "sendMessage" /\ isInitialized[lastEvent.node])
       => (/\ lastEvent.outcome = "sent"
           /\ WrittenTo = Reachable(lastEvent.node)
           /\ lastEvent.id \in DOMAIN messageCache[lastEvent.node])
    /\ (/\ lastEvent.op = "onDataReceived"
        /\ lastEvent.outcome = "admitted"
        /\ Decode(lastEvent.data).ttl > 0)
       => WrittenTo = Reachable(lastEvent.node) \ {lastEvent.peer}

\* A sendMessage call has written to a peer while the write to another of
\* its peers failed.
C23_Witness ==
    /\ lastEvent.op = "sendMessage"
    /\ lastEvent.outcome = "sent"
    /\ WrittenTo # {}
    /\ Peers(lastEvent.node) \ Reachable(lastEvent.node) # {}

-----------------------------------------------------------------------------
(* Calls before initialization: an engine from its construction on.        *)

NextUninit ==
    \/ \E n \in Node : InitializeBegin(n)
    \/ \E n \in Node : InitializeFinish(n)
    \/ \E n \in Node : StartServices(n)
    \/ \E n \in Node : StopServices(n)
    \/ \E n \in Node, packet \in LifecyclePackets : SendMessage(n, packet)
    \/ \E n \in Node, device \in LifecycleDevices, rssi \in RssiValues :
          DeviceDiscovered(n, device, rssi)

SpecUninit == Init /\ [][NextUninit]_vars

\* C24: a startServices or sendMessage call on an engine that is not
\* initialized fails with an error and changes nothing: scanning and
\* advertising stay off, nothing is written to a peer, nothing enters
\* messageCache.
C24_FailFastBeforeInit ==
    [][(/\ lastEvent'.op \in {"startServices", "sendMessage"}
        /\ ~isInitialized[lastEvent'.node])
       => (/\ lastEvent'.outcome = "error"
           /\ lastEvent'.writes = {}
           /\ UNCHANGED <<isInitialized, isScanning, isAdvertising, delegate,
                          connectedPeers, discoveredDevices, messageCache,
                          processedMessages, timers, initPending, batteryMode,
                          scanParams, net, delivered, relayLog, appPeers>>)]_vars

\* sendMessage has failed on an engine that is not initialized.
C24_Witness ==
    /\ lastEvent.op = "sendMessage"
    /\ lastEvent.node \in engines
    /\ lastEvent.outcome = "error"
    /\ ~isInitialized[lastEvent.node]
    /\ ~isScanning[lastEvent.node]
    /\ DOMAIN messageCache[lastEvent.node] = {}

-----------------------------------------------------------------------------
(* The size of what encode writes.                                         *)

\* encode of the packet with its payload written as it is.
EncodeUncompressed(packet) ==
    EncodeFrame(packet, [isCompressed |-> FALSE, payload |-> packet.payload])

\* C25: for a payload that shouldCompress accepts, what encode writes is no
\* longer than the frame with the payload written uncompressed; the
\* isCompressed flag is never set on a frame that is longer than that.
C25_CompressionNeverExpands ==
    (/\ wireSt.phase = "encoded"
     /\ ShouldCompress(wireSt.packet.payload))
    => Len(wireSt.wire) <= Len(EncodeUncompressed(wireSt.packet))

\* encode has written a compressed frame that is shorter than the
\* uncompressed one.
C25_Witness ==
    /\ wireSt.phase = "encoded"
    /\ ShouldCompress(wireSt.packet.payload)
    /\ HasBit(WireFlags(wireSt.wire), FLAG_IS_COMPRESSED)
    /\ Len(wireSt.wire) < Len(EncodeUncompressed(wireSt.packet))

-----------------------------------------------------------------------------
(* validate on packets around each of its limits.                          *)

\* Packets with every field at, below and above what validate allows, for a
\* clock that reads clock.
ValidatePackets(clock) ==
    { [MkPacket(MESSAGE, ttl, clock + ahead, senderID, recipientID, payload, signature)
         EXCEPT !.version = version] :
        version \in {VERSION, VERSION + 1},
        ttl \in {0 - 1, 0, MAX_TTL, MAX_TTL + 1},
        ahead \in {0, MaxFutureMs, MaxFutureMs + 1},
        senderID \in {<<>>, <<9>>, Rep(1, SENDER_ID_SIZE), Rep(1, SENDER_ID_SIZE + 1)},
        recipientID \in {NoBytes, Rep(7, RECIPIENT_ID_SIZE), Rep(7, RECIPIENT_ID_SIZE + 1)},
        payload \in {<<72>>, Rep(65, MAX_PAYLOAD_SIZE), Rep(65, MAX_PAYLOAD_SIZE + 1)},
        signature \in {NoBytes, Rep(9, SIGNATURE_SIZE - 1), Rep(9, SIGNATURE_SIZE)} }

InitValidate ==
    /\ Constructed({})
    /\ compSt = [phase |-> "idle"]
    /\ padSt = [phase |-> "idle"]
    /\ \E clock \in {0, ClockStep} : \E p \in ValidatePackets(clock) :
          wireSt = [phase |-> "unvalidated", packet |-> p, clock |-> clock, valid |-> FALSE]

ValidateStep ==
    /\ wireSt.phase = "unvalidated"
    /\ wireSt' = [wireSt EXCEPT !.phase = "validated",
                                !.valid = Validate(wireSt.packet, wireSt.clock)]
    /\ UNCHANGED <<compSt, padSt, engineVars, envVars>>

NextValidate == ValidateStep

SpecValidate == InitValidate /\ [][NextValidate]_vars

\* What a packet has to be like at the time clock: version VERSION, ttl in
\* 0..7, a senderID of 1 to 8 bytes, a recipientID of at most 8 bytes if
\* there is one, a payload of at most 4096 bytes, a signature of 64 bytes if
\* there is one, a timestamp at most 5 minutes after clock.
WellFormed(packet, clock) ==
    /\ packet.version = VERSION
    /\ 0 <= packet.ttl /\ packet.ttl <= 7
    /\ 1 <= Len(packet.senderID) /\ Len(packet.senderID) <= 8
    /\ packet.recipientID = NoBytes \/ Len(packet.recipientID) <= 8
    /\ Len(packet.payload) <= 4096
    /\ packet.signature = NoBytes \/ Len(packet.signature) = 64
    /\ packet.timestamp <= clock + 5 * 60 * 1000

\* C26: validate returns true for exactly the packets that meet every one
\* of the seven conditions, and false for all others.
C26_ValidateExact ==
    wireSt.phase = "validated" =>
        (wireSt.valid <=> WellFormed(wireSt.packet, wireSt.clock))

\* validate has accepted a packet that sits on every upper limit.
C26_Witness ==
    /\ wireSt.phase = "validated"
    /\ wireSt.valid
    /\ wireSt.packet.ttl = MAX_TTL
    /\ wireSt.packet.timestamp = wireSt.clock + MaxFutureMs
    /\ Len(wireSt.packet.payload) = MAX_PAYLOAD_SIZE
    /\ Len(wireSt.packet.senderID) = SENDER_ID_SIZE
    /\ wireSt.packet.recipientID # NoBytes
    /\ wireSt.packet.signature # NoBytes

-----------------------------------------------------------------------------
(* generateMessageId on packets of several timestamps.                     *)

\* Packets whose timestamps have different bytes at different places, and
\* payloads that differ within and beyond their first 32 bytes.
IdPackets ==
    { MkPacket(type, ttl, timestamp, senderID, NoBytes, payload, NoBytes) :
        type \in {MESSAGE, ANNOUNCE}, ttl \in {0, MAX_TTL},
        timestamp \in {0, 1000, 65536, 16777217},
        senderID \in WireSenders,
        payload \in {<<>>, <<72, 105>>, Ramp(32) \o <<1>>, Ramp(32) \o <<2>>} }

InitId ==
    /\ Constructed({})
    /\ compSt = [phase |-> "idle"]
    /\ padSt = [phase |-> "idle"]
    /\ \E p \in IdPackets : wireSt = [phase |-> "unhashed", packet |-> p, id |-> 0]

IdStep ==
    /\ wireSt.phase = "unhashed"
    /\ wireSt' = [wireSt EXCEPT !.phase = "hashed", !.id = GenerateMessageId(wireSt.packet)]
    /\ UNCHANGED <<compSt, padSt, engineVars, envVars>>

NextId == IdStep

SpecId == InitId /\ [][NextId]_vars

\* The hash of generateMessageId over a byte sequence.
HashOf(input) == ToInt32(ForEachByte(HashStep, input, 1, Len(input), <<0, 0>>))

\* C27: the id of a packet is the hash of senderID, followed by the
\* timestamp as 8 bytes with the most significant byte first, followed by
\* the first 32 bytes of the payload.
C27_MessageIdInput ==
    wireSt.phase = "hashed" =>
        wireSt.id = HashOf(wireSt.packet.senderID
                           \o BytesBE(wireSt.packet.timestamp, 8)
                           \o Slice(wireSt.packet.payload, 0, 32))

-----------------------------------------------------------------------------
(* The shape of what pad returns.                                          *)

\* C28: pad(b, targetSize) is b when len(b) >= targetSize or
\* targetSize - len(b) > 255; otherwise it has targetSize bytes, begins with
\* b and ends with the byte targetSize - len(b).
C28_PadShape ==
    padSt.phase \in {"padded", "unpadded"} =>
        IF Len(padSt.data) >= padSt.targetSize \/ padSt.targetSize - Len(padSt.data) > 255
        THEN padSt.padded = padSt.data
        ELSE /\ Len(padSt.padded) = padSt.targetSize
             /\ SubSeq(padSt.padded, 1, Len(padSt.data)) = padSt.data
             /\ padSt.padded[padSt.targetSize] = padSt.targetSize - Len(padSt.data)

\* pad has added the largest padding there is, 255 bytes, to a byte string
\* that is not empty.
C28_Witness ==
    /\ padSt.phase = "padded"
    /\ Len(padSt.data) > 0
    /\ padSt.targetSize - Len(padSt.data) = MAX_PADDING
    /\ Len(padSt.padded) = padSt.targetSize

-----------------------------------------------------------------------------
(* Two deliveries of one packet: engine 1 relays to engine 2, and the      *)
(* relay writes stay in flight while engine 1 is handed more data.         *)

Neighbour == Min(2, NumNodes)

InitAtomic ==
    /\ CodecIdle
    /\ Running({Engine, Neighbour},
               [n \in Node |-> IF n = Engine THEN Node \ {Engine}
                               ELSE IF n = Neighbour THEN {Engine} ELSE {}])

\* The bytes the outer peers send: a message with two ttl values, another
\* message and an announcement.
AtomicWire ==
    { Encode(HelloPacket(3)), Encode(HelloPacket(1)), Encode(OtherPacket(2)),
      Encode(AnnouncePacket(2)) }

NextAtomic ==
    \/ \E n \in Node, from \in Node, data \in AtomicWire : EnvInbound(n, from, data)
    \/ \E n \in Node : \E m \in DOMAIN net : Deliver(n, m)

SpecAtomic == InitAtomic /\ [][NextAtomic]_vars

\* A relay write of node n for message id is still in flight.
RelayPending(n, id) == \E m \in DOMAIN net : m.src = n /\ WireId(m.data) = id

\* C29: the id of a packet is in processedMessages from before its relay
\* begins: every id relayed, and every id of a relay write in flight, is in
\* the processedMessages of the relaying engine, and a second delivery of
\* the packet that arrives while relay writes of the first are still in
\* flight is dropped as a duplicate.
C29_AdmissionAtomic ==
    /\ \A n \in engines : \A i \in DOMAIN relayLog[n] :
          relayLog[n][i].id \in processedMessages[n]
    /\ \A m \in DOMAIN net : WireId(m.data) \in processedMessages[m.src]
    /\ (/\ ReceivedValid
        /\ SeenBefore(lastEvent.node, WireId(lastEvent.data))
        /\ RelayPending(lastEvent.node, WireId(lastEvent.data)))
       => (/\ lastEvent.outcome = "duplicate"
           /\ lastEvent.writes = {}
           /\ ~lastEvent.toApp)

\* The packet has arrived a second time, from another peer, while the relay
\* write of its first delivery is still in flight.
C29_Witness ==
    /\ ReceivedValid
    /\ RelayPending(lastEvent.node, WireId(lastEvent.data))
    /\ \E i \in DOMAIN Earlier(lastEvent.node) :
          /\ Earlier(lastEvent.node)[i].data = lastEvent.data
          /\ Earlier(lastEvent.node)[i].from # lastEvent.peer
    /\ lastEvent.outcome = "duplicate"

-----------------------------------------------------------------------------
(* One flood: one packet is originated in a mesh of engines and its        *)
(* copies are handed over one by one.                                      *)

\* The ttl values the packet is originated with.
FloodTtls == {0, 1, 2, MAX_TTL}

\* No engine has originated a packet yet.
NothingSent == \A n \in Node : DOMAIN messageCache[n] = {}

NextFlood ==
    \/ \E n \in {Engine, Neighbour}, ttl \in FloodTtls :
          NothingSent /\ SendMessage(n, AppPacket(ttl))
    \/ \E n \in Node : \E m \in DOMAIN net : Deliver(n, m)

SpecFlood == InitMesh /\ [][NextFlood]_vars

\* The number of connections, each counted at both of its ends.
RECURSIVE Links(_)
Links(k) == IF k = 0 THEN 0 ELSE Cardinality(Peers(k)) + Links(k - 1)

\* The ttl the packet was originated with (0 before it is).
OriginTtl ==
    IF NothingSent THEN 0
    ELSE LET n == CHOOSE n \in Node : DOMAIN messageCache[n] # {}
             id == CHOOSE id \in DOMAIN messageCache[n] : TRUE
         IN  messageCache[n][id].ttl

\* What holds at every point of a flood: a relayed copy has a smaller ttl
\* than the copy received, a copy received with ttl 0 is not relayed, every
\* copy in flight has a ttl from 0 to the ttl of origin, and no engine fans
\* the packet out twice.
FloodBounded ==
    /\ lastEvent.op = "onDataReceived"
       => /\ \A w \in lastEvent.writes :
                Decode(w.data).ttl < Decode(lastEvent.data).ttl
          /\ Decode(lastEvent.data).ttl = 0 => lastEvent.writes = {}
    /\ \A m \in DOMAIN net :
          Decode(m.data).ttl >= 0 /\ Decode(m.data).ttl <= OriginTtl
    /\ \A n \in engines : Len(relayLog[n]) <= 1

\* No copy is in flight.
Quiet == net = EmptyBag

\* C30: a flood is bounded at every point, and the copies written in all,
\* those handed over and those in flight, are never more than the mesh has
\* connection ends; each handover takes one copy out of flight, so after at
\* most that many handovers no copy is in flight.
C30_FloodTerminates ==
    /\ FloodBounded
    /\ Traffic <= Links(NumNodes)

\* A flood has ended: engines have relayed the packet, a copy has arrived
\* with ttl 0, and nothing is in flight.
C30_Witness ==
    /\ Quiet
    /\ HandedOver(NumNodes) >= 3
    /\ ~NothingSent
    /\ \E n \in engines : relayLog[n] # <<>>
    /\ \E n \in engines : \E i \in DOMAIN received[n] : Decode(received[n][i].data).ttl = 0

-----------------------------------------------------------------------------
(* A packet that comes back to the engine that originated it.              *)

\* C31: an engine that has originated a packet through sendMessage does not
\* hand that packet to its own application and does not relay it when a copy
\* of it comes back from a neighbour.
C31_OriginatorIgnoresOwnPacket ==
    \A n \in engines : \A id \in DOMAIN messageCache[n] :
        /\ Deliveries(n, id) = 0
        /\ FanOuts(n, id) = 0

-----------------------------------------------------------------------------
(* One hop: what an engine writes when it relays what it was handed.       *)

\* A payload of two runs, long enough to be compressed, with its first run
\* inside the 32 bytes that generateMessageId reads.
TwoRuns == Rep(65, 16) \o Rep(66, 184)

\* The bytes the peers send: a short message, a message of a payload that
\* encode compresses, one with a recipient and a signature, and one that
\* arrives expired.
HopWire ==
    { Encode(HelloPacket(3)),
      Encode(MkPacket(MESSAGE, 3, 0, PeerSender, NoBytes, TwoRuns, NoBytes)),
      Encode(MkPacket(MESSAGE, 2, 0, PeerSender, <<7, 7>>, <<72, 105>>, Rep(9, SIGNATURE_SIZE))),
      Encode(OtherPacket(0)) }

NextHop ==
    \E n \in Node, from \in Node, data \in HopWire : EnvInbound(n, from, data)

SpecHop == InitRelay /\ [][NextHop]_vars

\* C32: the bytes an engine writes when it relays an admitted packet of
\* ttl > 0 decode to a packet with the type, timestamp, senderID,
\* recipientID, payload and signature of the packet received and a ttl
\* smaller by one, and so to a packet of the same message id.
C32_RelayPreservesContent ==
    (/\ lastEvent.op = "onDataReceived"
     /\ lastEvent.outcome = "admitted"
     /\ Decode(lastEvent.data).ttl > 0)
    => \A w \in lastEvent.writes :
          /\ Decode(w.data) # NoPacket
          /\ Decode(w.data).type = Decode(lastEvent.data).type
          /\ Decode(w.data).timestamp = Decode(lastEvent.data).timestamp
          /\ Decode(w.data).senderID = Decode(lastEvent.data).senderID
          /\ Decode(w.data).recipientID = Decode(lastEvent.data).recipientID
          /\ Decode(w.data).payload = Decode(lastEvent.data).payload
          /\ Decode(w.data).signature = Decode(lastEvent.data).signature
          /\ Decode(w.data).ttl = Decode(lastEvent.data).ttl - 1
          /\ WireId(w.data) = WireId(lastEvent.data)

-----------------------------------------------------------------------------
(* The message id along a chain of hops.                                   *)

\* C33: for every packet of ttl > 0 the packet decrementTTL returns has the
\* message id of the packet it was given; along a chain of decrementTTL
\* calls every packet returned has the id of the packet the chain began with.
C33_IdIgnoresTtl ==
    (wireSt.phase = "ttl" /\ wireSt.packet # NoPacket) =>
        /\ GenerateMessageId(wireSt.packet) = GenerateMessageId(wireSt.start)
        /\ wireSt.packet.ttl > 0 =>
              GenerateMessageId(DecrementTTL(wireSt.packet))
                  = GenerateMessageId(wireSt.packet)

\* A packet that began with ttl MAX_TTL and a payload, after MAX_TTL hops.
C33_Witness ==
    /\ wireSt.phase = "ttl"
    /\ wireSt.start.ttl = MAX_TTL
    /\ wireSt.start.payload # <<>>
    /\ wireSt.calls = MAX_TTL
    /\ wireSt.packet # NoPacket
    /\ wireSt.packet.ttl = 0
    /\ GenerateMessageId(wireSt.packet) = GenerateMessageId(wireSt.start)

-----------------------------------------------------------------------------
(* The timers of an engine that initialize was called on more than once.   *)

\* C34: once every initialize call has completed there is exactly one
\* cleanup timer and one cover timer, and at all times every timer that was
\* created is the one the engine holds the handle of.
C34_PeriodicTasksStartedOnce ==
    \A n \in engines :
        /\ timers[n].cleanupLive \subseteq {timers[n].peerCleanupTimer}
        /\ timers[n].coverLive \subseteq {timers[n].coverTrafficTimer}
        /\ (isInitialized[n] /\ initPending[n] = 0)
           => /\ Cardinality(timers[n].cleanupLive) = 1
              /\ Cardinality(timers[n].coverLive) = 1

-----------------------------------------------------------------------------
(* What the application was told about the peer table.                     *)

\* C35: every peer that was reported through onPeerConnected and has since
\* been removed from the peer table has been reported through
\* onPeerDisconnected: the peers the application holds as connected are all
\* in the table.
C35_EveryRemovalNotified ==
    \A n \in engines : appPeers[n] \subseteq Peers(n)

-----------------------------------------------------------------------------
(* Traffic that arrives while a stale peer is being disconnected.          *)

NextEvict ==
    \/ \E n \in Node, from \in {2, 3}, data \in StaleWire : EnvInbound(n, from, data)
    \/ \E n \in Node : CleanupBegin(n)
    \/ \E n \in Node, peerId \in {2, 3} : DisconnectFinish(n, peerId)
    \/ \E step \in StaleSteps : Tick(step)

SpecEvict == InitStale /\ [][NextEvict]_vars

-----------------------------------------------------------------------------
(* connectToPeer of the service over react-native-ble-plx.                 *)

\* The devices in range of the scan.
Peripherals == {2, 3}

\* The awaits of connectToPeer in their order: connectToDevice,
\* discoverAllServicesAndCharacteristics, services with the service test,
\* performHandshake, setupMessageMonitoring.
ConnectStages == <<"connect", "discover", "services", "handshake", "monitor">>

StageAfter(stage) ==
    LET i == CHOOSE k \in DOMAIN ConnectStages : ConnectStages[k] = stage
    IN  IF i = Len(ConnectStages) THEN "done" ELSE ConnectStages[i + 1]

\* How an await of connectToPeer ends: it resolves, it rejects, or (services
\* only) it resolves to a list without the BitChat service.
StepOutcomes == {"ok", "rejected", "missing"}

\* connectToPeer that enters the peer in the table once the service is found.
InsertStageEarly == "services"

\* The await after which connectToPeer enters the peer in the table and
\* emits peerConnected (lines 184-185 follow setupMessageMonitoring).
InsertStage == "monitor"

\* The scan callback of startScanning for a named device.
ScanFound(device) ==
    /\ device \notin realMesh.discoveredDevices
    /\ realMesh' = [realMesh EXCEPT !.discoveredDevices = @ \cup {device}]
    /\ lastEvent' = Event("deviceDiscovered", 0, device, <<>>, "ok", 0, {}, FALSE, {})
    /\ UNCHANGED <<codecVars, engineVars, now, engines, net, delivered, received,
                   relayLog, appPeers, stopped, disconnecting>>

\* connectToPeer up to its first await (lines 147-156).
ConnectToPeerBegin(c, deviceId) ==
    /\ realMesh.calls[c].stage = "idle"
    /\ \A b \in 1..(c - 1) : realMesh.calls[b].stage # "idle"
    /\ IF deviceId \notin realMesh.discoveredDevices
       THEN /\ realMesh' = [realMesh EXCEPT !.calls[c] =
                               [NoCall EXCEPT !.deviceId = deviceId, !.stage = "failed",
                                              !.error = "Device not found"]]
            /\ lastEvent' = Event("connectToPeer", 0, deviceId, <<>>, "error", 0, {},
                                  FALSE, {})
       ELSE /\ realMesh' = [realMesh EXCEPT !.calls[c] =
                               [NoCall EXCEPT !.deviceId = deviceId, !.stage = "connect"]]
            /\ lastEvent' = Event("connectToPeer", 0, deviceId, <<>>, "suspended", 0, {},
                                  FALSE, {})
    /\ UNCHANGED <<codecVars, engineVars, now, engines, net, delivered, received,
                   relayLog, appPeers, stopped, disconnecting>>

\* connectToPeer from one await to the next (lines 157-193), with
\* performHandshake and setupMessageMonitoring.
ConnectToPeerStep(c, outcome) ==
    LET call == realMesh.calls[c]
        stage == call.stage
    IN  /\ stage \in Range(ConnectStages)
        /\ outcome = "missing" => stage = "services"
        /\ IF outcome = "ok"
           THEN /\ realMesh' =
                      [realMesh EXCEPT
                          !.calls[c] = [call EXCEPT !.stage = StageAfter(stage),
                                                    !.passed = @ \cup {stage},
                                                    !.inserted = @ \/ stage = InsertStage],
                          !.connectedPeers =
                              IF stage = InsertStage THEN @ \cup {call.deviceId} ELSE @,
                          !.emitted =
                              IF stage = InsertStage
                              THEN Append(@, <<"peerConnected", call.deviceId>>) ELSE @]
                /\ lastEvent' = Event("connectToPeer", 0, call.deviceId, <<>>,
                                      StageAfter(stage), 0, {}, FALSE, {})
           ELSE /\ realMesh' =
                      [realMesh EXCEPT
                          !.calls[c] = [call EXCEPT
                              !.stage = "failed",
                              !.error = IF outcome = "missing"
                                        THEN "BitChat service not found on device"
                                        ELSE stage]]
                /\ lastEvent' = Event("connectToPeer", 0, call.deviceId, <<>>, "error", 0,
                                      {}, FALSE, {})
        /\ UNCHANGED <<codecVars, engineVars, now, engines, net, delivered, received,
                       relayLog, appPeers, stopped, disconnecting>>

InitConnect == CodecIdle /\ Constructed({})

NextConnect ==
    \/ \E device \in Peripherals : ScanFound(device)
    \/ \E c \in 1..MaxCalls, deviceId \in Peripherals : ConnectToPeerBegin(c, deviceId)
    \/ \E c \in 1..MaxCalls, outcome \in StepOutcomes : ConnectToPeerStep(c, outcome)

SpecConnect == InitConnect /\ [][NextConnect]_vars

\* The awaits the claim names: connection, service check, handshake write
\* and message-monitoring setup.
NamedStages == {"connect", "services", "handshake", "monitor"}

\* The connectToPeer calls that have entered their peer in the table.
Inserting(deviceId) ==
    {c \in 1..MaxCalls : realMesh.calls[c].deviceId = deviceId /\ realMesh.calls[c].inserted}

\* C37: a peer is in the connected table, and peerConnected has been emitted
\* for it, only through a connectToPeer call whose handshake write and
\* message-monitoring setup have succeeded; a call in which the connection,
\* the service check or the handshake failed has thrown its error and has
\* neither entered a peer in the table nor emitted peerConnected.
C37_ConnectedAfterHandshake ==
    /\ \A deviceId \in realMesh.connectedPeers : Inserting(deviceId) # {}
    /\ \A i \in DOMAIN realMesh.emitted :
          /\ realMesh.emitted[i][1] = "peerConnected"
          /\ Inserting(realMesh.emitted[i][2]) # {}
    /\ Len(realMesh.emitted)
          = Cardinality({c \in 1..MaxCalls : realMesh.calls[c].inserted})
    /\ \A c \in 1..MaxCalls :
          /\ realMesh.calls[c].inserted
             => NamedStages \subseteq realMesh.calls[c].passed
          /\ realMesh.calls[c].stage = "failed"
             => /\ realMesh.calls[c].error # ""
                /\ ~realMesh.calls[c].inserted

\* One call has connected a peer and another has failed at its handshake.
C37_Witness ==
    \E c, d \in 1..MaxCalls :
        /\ realMesh.calls[c].stage = "done"
        /\ realMesh.calls[c].deviceId \in realMesh.connectedPeers
        /\ realMesh.calls[d].stage = "failed"
        /\ realMesh.calls[d].error = "handshake"
        /\ realMesh.calls[d].deviceId \notin realMesh.connectedPeers

-----------------------------------------------------------------------------
(* The payload-length field of encode.                                     *)

\* The number of values the two bytes of the length field can hold.
FieldLimit == 256 * 256

\* n bytes that go through every byte value in turn; shouldCompress turns
\* them down.
Cycle(n) == [i \in 1..n |-> i % 256]

\* The payloads encode is given, by kind and length; the state holds the
\* shape of a payload and not its bytes.
ShapedPayload(shape) ==
    CASE shape.kind = "cycle" -> Cycle(shape.n)
      [] shape.kind = "stripes" -> Stripes(shape.n)
      [] shape.kind = "runs" -> TwoRuns
      [] OTHER -> Rep(72, shape.n)

\* Short payloads and payloads that encode compresses.
SmallShapes ==
    { [kind |-> "short", n |-> 0], [kind |-> "short", n |-> 2],
      [kind |-> "stripes", n |-> COMPRESSION_THRESHOLD + 1],
      [kind |-> "runs", n |-> Len(TwoRuns)] }

\* Payloads around the largest length the field can hold.
LargeShapes ==
    { [kind |-> "cycle", n |-> n] :
        n \in {FieldLimit - 1, FieldLimit, FieldLimit + COMPRESSION_THRESHOLD} }

\* A packet without its payload, and the shape of the payload.
LengthInputs ==
    { [frame |-> MkPacket(MESSAGE, MAX_TTL, 1000, s, r, <<>>, g), shape |-> sh] :
        s \in WireSenders, r \in WireRecipients, g \in WireSignatures, sh \in SmallShapes }
    \cup
    { [frame |-> MkPacket(MESSAGE, MAX_TTL, 1000, <<9>>, NoBytes, <<>>, NoBytes),
       shape |-> sh] : sh \in LargeShapes }

InitLength ==
    /\ wireSt \in {[phase |-> "unmeasured", frame |-> in.frame, shape |-> in.shape,
                    returned |-> FALSE, head |-> NoBytes, size |-> 0] : in \in LengthInputs}
    /\ compSt = [phase |-> "idle"]
    /\ padSt = [phase |-> "idle"]
    /\ Constructed({})

\* What is kept of the bytes encode returned: the bytes up to the end of the
\* length field, and how many bytes there are.
Measured(st, wire) ==
    [st EXCEPT !.phase = "measured", !.returned = wire # NoBytes,
               !.head = IF wire = NoBytes THEN NoBytes ELSE Slice(wire, 0, HEADER_SIZE + 1),
               !.size = IF wire = NoBytes THEN 0 ELSE Len(wire)]

\* encode of the packet with its payload.
MeasureStep ==
    /\ wireSt.phase = "unmeasured"
    /\ wireSt' = Measured(wireSt,
                          Encode([wireSt.frame EXCEPT !.payload = ShapedPayload(wireSt.shape)]))
    /\ UNCHANGED <<compSt, padSt, engineVars, envVars>>

NextLength == MeasureStep

SpecLength == InitLength /\ [][NextLength]_vars

\* The length of the payload section in size bytes that encode returned for
\* a packet of this frame: what lies beyond the sections of fixed size.
PayloadSection(frame, size) == size - Len(Encode(frame))

\* C38: in the bytes encode returns, the two bytes of the payload-length
\* field hold the length of the payload section (the payload bytes on the
\* wire, and two more when the payload is compressed); encode returns no
\* bytes for a packet whose payload section is too long for the field.
C38_LengthFieldNotTruncated ==
    wireSt.phase = "measured" =>
        IF wireSt.returned
        THEN WirePayloadLength(wireSt.head) = PayloadSection(wireSt.frame, wireSt.size)
        ELSE wireSt.shape.n >= FieldLimit

-----------------------------------------------------------------------------
(* unpad on byte strings of any content.                                   *)

\* The byte strings handed to unpad: every string of up to MaxPadLen + 1
\* bytes over a few values, and strings around the longest padding.
UnpadInputs ==
    UNION {[1..k -> {0, 1, 2, 3, MAX_PADDING}] : k \in 0..(MaxPadLen + 1)}
    \cup { Rep(MAX_PADDING, MAX_PADDING - 1), Rep(MAX_PADDING, MAX_PADDING),
           Rep(MAX_PADDING, MAX_PADDING + 1),
           <<7>> \o Rep(MAX_PADDING, MAX_PADDING),
           Rep(MAX_PADDING, MAX_PADDING) \o <<3, 3, 3>> }

InitUnpad ==
    /\ padSt \in {[phase |-> "padded", data |-> <<>>, targetSize |-> 0,
                   padded |-> d, unpadded |-> NoBytes] : d \in UnpadInputs}
    /\ wireSt = [phase |-> "idle"]
    /\ compSt = [phase |-> "idle"]
    /\ Constructed({})

NextUnpad == UnpadStep

SpecUnpad == InitUnpad /\ [][NextUnpad]_vars

\* The last byte k of the bytes is in 1..min(255, length) and each of the
\* last k bytes is k.
EndsInPadding(bytes) ==
    /\ Len(bytes) > 0
    /\ bytes[Len(bytes)] >= 1
    /\ bytes[Len(bytes)] <= Min(MAX_PADDING, Len(bytes))
    /\ \A i \in 1..Len(bytes) :
          i > Len(bytes) - bytes[Len(bytes)] => bytes[i] = bytes[Len(bytes)]

\* C39: unpad returns its input without its last k bytes when the last byte
\* k is in 1..min(255, length) and each of the last k bytes is k, and returns
\* its input unchanged in every other case.
C39_UnpadConservative ==
    padSt.phase = "unpadded" =>
        IF EndsInPadding(padSt.padded)
        THEN padSt.unpadded
                = SubSeq(padSt.padded, 1,
                         Len(padSt.padded) - padSt.padded[Len(padSt.padded)])
        ELSE padSt.unpadded = padSt.padded

\* unpad has returned its input unchanged: the last byte is 2, in range for
\* the length, and the byte before it is not 2.
C39_Witness ==
    /\ padSt.phase = "unpadded"
    /\ Len(padSt.padded) > 2
    /\ padSt.padded[Len(padSt.padded)] = 2
    /\ padSt.padded[Len(padSt.padded) - 1] # 2
    /\ padSt.unpadded = padSt.padded

====
